---- MODULE Spec2Model ----
(***************************************************************************)
(* Model of the annotation-region detection and merging engine of          *)
(* better-research (src/extracting_highlights_images.py) and of the        *)
(* functions that configure, drive and consume it.                         *)
(*                                                                         *)
(* The specifications of the module:                                       *)
(*   SpecMerge     merge_nearby_rectangles, one action per loop step       *)
(*   SpecMergeFair SpecMerge with weak fairness of its steps               *)
(*   Spec          extract_highlights_and_red_annotations, one action per  *)
(*                 page of the document                                    *)
(*   SpecClassify  one call of should_extract_annotation                   *)
(*   SpecConfig    load_config and the reading of the extraction flags     *)
(*   SpecTune      extract_with_custom_params                              *)
(*   SpecDirs      ensure_directories                                      *)
(*   SpecWorkflow  WorkflowOrchestrator.run_full_workflow                  *)
(*   SpecBatch     process_all_pdfs                                        *)
(***************************************************************************)
EXTENDS Integers, Sequences, FiniteSets, Bags, TLC

VARIABLES
    \* ---- merge_nearby_rectangles (SpecMerge) ----
    rectangles,            \* argument: list of (x, y, w, h)
    horizontal_threshold,  \* argument
    vertical_threshold,    \* argument
    rects,                 \* list of (x1, y1, x2, y2)
    used,                  \* used[k]: rects[k] already belongs to a group
    outer_i,               \* index of the outer for loop (1-based)
    group,                 \* members of the group being grown
    group_idx,             \* indices (into rects) of the members of group
    changed,               \* the while loop's flag
    merged,                \* result list of (x, y, w, h)
    groups,                \* for each entry of merged, the indices of its members
    scans,                 \* number of scans of the while loop run for the current group
    mpc,                   \* position in merge_nearby_rectangles
    \* ---- extract_highlights_and_red_annotations (Spec) ----
    extract_highlights,    \* flag read from the configuration
    extract_handwriting,   \* flag read from the configuration
    num_pages,             \* len(doc)
    page_num,              \* index of the page loop (0-based, as in the source)
    extracted_items,       \* the record list
    origin,                \* for each record: the region it was cut from (history)
    images,                \* filenames written with cv2.imwrite
    dropped,               \* regions skipped because the crop was empty (history)
    summary,               \* content of extraction_summary.json once written
    doc_pages,             \* the pages of doc read so far: what each held (history)
    pc,                    \* position in extract_highlights_and_red_annotations
    \* ---- should_extract_annotation (SpecClassify) ----
    ca_annot,              \* argument annot (annot_type is ca_annot.type)
    ca_highlights,         \* argument extract_highlights
    ca_handwriting,        \* argument extract_handwriting
    ca_result,             \* the value returned
    ca_pc,                 \* "call" before, "returned" after the call
    \* ---- load_config and the extraction settings (SpecConfig) ----
    cf_file,               \* config.json: absent, not valid JSON, or its content
    cf_arg,                \* argument config (None or a dictionary)
    cf_config,             \* the local config after line 43
    cf_highlights,         \* the local extract_highlights after line 46
    cf_handwriting,        \* the local extract_handwriting after line 47
    cf_pc,                 \* position in lines 41-47
    \* ---- extract_with_custom_params (SpecTune) ----
    tp_params,             \* the keyword arguments
    tp_flags,              \* the flags config.json gives
    tp_img,                \* the page of the (one-page) document
    tp_items,              \* the records returned
    tp_pc,                 \* "call" before, "returned" after the call
    \* ---- ensure_directories (SpecDirs) ----
    ed_folders,            \* config['folders']
    ed_dirs,               \* dirs_to_create
    ed_i,                  \* index of the for loop (1-based)
    ed_fs,                 \* the directories that exist
    ed_pc,                 \* position in ensure_directories
    \* ---- run_full_workflow (SpecWorkflow) ----
    wf_zotero,             \* self.zotero_sync is not None
    wf_remarkable,         \* self.remarkable_sync is not None
    wf_results,            \* the dictionary results
    wf_trace,              \* the steps entered so far (history)
    wf_outcomes,           \* what each step's component did (history)
    wf_pc,                 \* position in run_full_workflow
    \* ---- process_all_pdfs (SpecBatch) ----
    bp_dir,                \* the PDFs of the input folder and how each behaves
    bp_files,              \* pdf_files
    bp_i,                  \* index of the for loop (1-based)
    bp_total_images,       \* total_images
    bp_log,                \* per PDF handled: images_dir, whether OCR ran (history)
    bp_pc                  \* position in process_all_pdfs

mvars == <<rectangles, horizontal_threshold, vertical_threshold, rects, used,
           outer_i, group, group_idx, changed, merged, groups, scans, mpc>>

dvars == <<extract_highlights, extract_handwriting, num_pages, page_num,
           extracted_items, origin, images, dropped, summary, doc_pages, pc>>

cvars == <<ca_annot, ca_highlights, ca_handwriting, ca_result, ca_pc>>

fvars == <<cf_file, cf_arg, cf_config, cf_highlights, cf_handwriting, cf_pc>>

tvars == <<tp_params, tp_flags, tp_img, tp_items, tp_pc>>

evars == <<ed_folders, ed_dirs, ed_i, ed_fs, ed_pc>>

wvars == <<wf_zotero, wf_remarkable, wf_results, wf_trace, wf_outcomes, wf_pc>>

bvars == <<bp_dir, bp_files, bp_i, bp_total_images, bp_log, bp_pc>>

xvars == <<fvars, tvars, evars, wvars, bvars>>

vars == <<mvars, dvars, cvars, xvars>>

----------------------------------------------------------------------------
(* Bounds and input pools *)

MaxRects == 3

\* rectangles (x, y, w, h) as cv2.boundingRect returns them: w, h >= 1
RectA == <<0, 0, 10, 10>>
RectB == <<25, 0, 10, 10>>
RectC == <<50, 0, 10, 10>>
RectD == <<0, 30, 10, 60>>
RectE == <<0, 80, 60, 10>>
RectF == <<40, 40, 10, 10>>

RectPool == {RectA, RectB, RectC, RectD, RectE, RectF}

HThreshPool == {14, 15, 20}
VThreshPool == {0, 19, 20}

SeqsUpTo(S, n) == UNION {[1..k -> S] : k \in 0..n}

\* A colour entry of annot.colors: the key may be missing; value is a list of
\* components in tenths (a None value is the empty list)
NoKey == [present |-> FALSE, value |-> <<>>]
Colour(v) == [present |-> TRUE, value |-> v]
Yellow == <<10, 10, 0>>
Red == <<10, 0, 0>>
Blue == <<0, 0, 10>>

\* A native annotation: type name, colours, rect (x0, y0, x1, y1) in document
\* space, given in half points
Annot(t, stroke, fill, r) ==
    [type |-> t, colors |-> [stroke |-> stroke, fill |-> fill], rect |-> r]

\* The variables of a function that is not the one a specification runs
\* keep these values.
MergeIdle ==
    /\ rectangles = <<>>
    /\ horizontal_threshold = 0
    /\ vertical_threshold = 0
    /\ rects = <<>>
    /\ used = <<>>
    /\ outer_i = 0
    /\ group = <<>>
    /\ group_idx = <<>>
    /\ changed = FALSE
    /\ merged = <<>>
    /\ groups = <<>>
    /\ scans = 0
    /\ mpc = "idle"

DocIdle ==
    /\ extract_highlights = TRUE
    /\ extract_handwriting = TRUE
    /\ num_pages = 0
    /\ page_num = 0
    /\ extracted_items = <<>>
    /\ origin = <<>>
    /\ images = {}
    /\ dropped = <<>>
    /\ summary = <<>>
    /\ doc_pages = <<>>
    /\ pc = "idle"

ClassifyIdle ==
    /\ ca_annot = Annot("Square", NoKey, NoKey, <<0, 0, 0, 0>>)
    /\ ca_highlights = TRUE
    /\ ca_handwriting = TRUE
    /\ ca_result = FALSE
    /\ ca_pc = "idle"

ConfigIdle ==
    /\ cf_file = "idle"
    /\ cf_arg = "idle"
    /\ cf_config = "idle"
    /\ cf_highlights = TRUE
    /\ cf_handwriting = TRUE
    /\ cf_pc = "idle"

TuneIdle ==
    /\ tp_params = "idle"
    /\ tp_flags = "idle"
    /\ tp_img = "idle"
    /\ tp_items = <<>>
    /\ tp_pc = "idle"

DirsIdle ==
    /\ ed_folders = "idle"
    /\ ed_dirs = <<>>
    /\ ed_i = 0
    /\ ed_fs = {}
    /\ ed_pc = "idle"

WorkflowIdle ==
    /\ wf_zotero = FALSE
    /\ wf_remarkable = FALSE
    /\ wf_results = "idle"
    /\ wf_trace = <<>>
    /\ wf_outcomes = <<>>
    /\ wf_pc = "idle"

BatchIdle ==
    /\ bp_dir = "idle"
    /\ bp_files = <<>>
    /\ bp_i = 0
    /\ bp_total_images = 0
    /\ bp_log = <<>>
    /\ bp_pc = "idle"

XIdle == ConfigIdle /\ TuneIdle /\ DirsIdle /\ WorkflowIdle /\ BatchIdle

CoreIdle == MergeIdle /\ DocIdle /\ ClassifyIdle

----------------------------------------------------------------------------
(* Pure helpers of the source *)

MinOf(S) == CHOOSE x \in S : \A y \in S : x <= y
MaxOf(S) == CHOOSE x \in S : \A y \in S : x >= y

\* line 187: (x, y, w, h) -> (x1, y1, x2, y2)
ToCorners(r) == <<r[1], r[2], r[1] + r[3], r[2] + r[4]>>

\* faulty variant: thresholds compared with <= instead of <
rectangles_should_merge_le(rect1, rect2, hT, vT) ==
    LET h_overlap == ~(rect1[3] <= rect2[1] - hT \/ rect2[3] <= rect1[1] - hT)
        v_overlap == ~(rect1[4] <= rect2[2] - vT \/ rect2[4] <= rect1[2] - vT)
    IN  h_overlap /\ v_overlap

\* faulty variant: threshold added instead of subtracted
rectangles_should_merge_plus(rect1, rect2, hT, vT) ==
    LET h_overlap == ~(rect1[3] < rect2[1] + hT \/ rect2[3] < rect1[1] + hT)
        v_overlap == ~(rect1[4] < rect2[2] + vT \/ rect2[4] < rect1[2] + vT)
    IN  h_overlap /\ v_overlap

\* faulty variant: only one direction of the separation test
rectangles_should_merge_oneway(rect1, rect2, hT, vT) ==
    LET h_overlap == ~(rect1[3] < rect2[1] - hT)
        v_overlap == ~(rect1[4] < rect2[2] - vT)
    IN  h_overlap /\ v_overlap

rectangles_should_merge(rect1, rect2, hT, vT) ==
    LET x1_1 == rect1[1]
        y1_1 == rect1[2]
        x2_1 == rect1[3]
        y2_1 == rect1[4]
        x1_2 == rect2[1]
        y1_2 == rect2[2]
        x2_2 == rect2[3]
        y2_2 == rect2[4]
        h_overlap == ~(x2_1 < x1_2 - hT \/ x2_2 < x1_1 - hT)
        v_overlap == ~(y2_1 < y1_2 - vT \/ y2_2 < y1_1 - vT)
    IN  h_overlap /\ v_overlap

rectangles_overlap(rect1, rect2) ==
    LET x1 == rect1[1]
        y1 == rect1[2]
        w1 == rect1[3]
        h1 == rect1[4]
        x2 == rect2[1]
        y2 == rect2[2]
        w2 == rect2[3]
        h2 == rect2[4]
    IN  ~(x1 + w1 < x2 \/ x2 + w2 < x1 \/ y1 + h1 < y2 \/ y2 + h2 < y1)

\* faulty variant: a candidate is compared with the first member of the group only
should_merge_seed_only(grp, rect2, hT, vT) ==
    rectangles_should_merge(grp[1], rect2, hT, vT)

\* lines 209-213: rect2 merges with ANY rectangle of the current group
should_merge(grp, rect2, hT, vT) ==
    \E k \in 1..Len(grp) : rectangles_should_merge(grp[k], rect2, hT, vT)

\* faulty variant: an absorbed rectangle is not marked as used
RECURSIVE scan_pass_unmarked(_, _, _, _, _)
scan_pass_unmarked(rs, hT, vT, j, st) ==
    IF j > Len(rs) THEN st
    ELSE IF st.used[j] THEN scan_pass_unmarked(rs, hT, vT, j + 1, st)
    ELSE IF should_merge(st.group, rs[j], hT, vT)
         THEN scan_pass_unmarked(rs, hT, vT, j + 1,
                        [group     |-> Append(st.group, rs[j]),
                         group_idx |-> Append(st.group_idx, j),
                         used      |-> st.used,
                         changed   |-> TRUE])
         ELSE scan_pass_unmarked(rs, hT, vT, j + 1, st)

\* lines 204-218: one full scan "for j, rect2 in enumerate(rects)" of the
\* while loop, from index j on; st = [group, group_idx, used, changed]
RECURSIVE scan_pass(_, _, _, _, _)
scan_pass(rs, hT, vT, j, st) ==
    IF j > Len(rs) THEN st
    ELSE IF st.used[j] THEN scan_pass(rs, hT, vT, j + 1, st)
    ELSE IF should_merge(st.group, rs[j], hT, vT)
         THEN scan_pass(rs, hT, vT, j + 1,
                        [group     |-> Append(st.group, rs[j]),
                         group_idx |-> Append(st.group_idx, j),
                         used      |-> [st.used EXCEPT ![j] = TRUE],
                         changed   |-> TRUE])
         ELSE scan_pass(rs, hT, vT, j + 1, st)

\* lines 201-218: "while changed"
RECURSIVE grow_group(_, _, _, _)
grow_group(rs, hT, vT, st) ==
    IF ~st.changed THEN st
    ELSE grow_group(rs, hT, vT, scan_pass(rs, hT, vT, 1, [st EXCEPT !.changed = FALSE]))

\* faulty variant: the box of the first member instead of the whole group
bounding_box_seed(grp) ==
    <<grp[1][1], grp[1][2], grp[1][3] - grp[1][1], grp[1][4] - grp[1][2]>>

\* lines 220-226: bounding box of the group as (x, y, w, h)
bounding_box(grp) ==
    LET min_x == MinOf({grp[k][1] : k \in 1..Len(grp)})
        min_y == MinOf({grp[k][2] : k \in 1..Len(grp)})
        max_x == MaxOf({grp[k][3] : k \in 1..Len(grp)})
        max_y == MaxOf({grp[k][4] : k \in 1..Len(grp)})
    IN  <<min_x, min_y, max_x - min_x, max_y - min_y>>

\* lines 192-226: the outer loop from index i on; acc = [used, merged, groups]
RECURSIVE outer_loop(_, _, _, _, _)
outer_loop(rs, hT, vT, i, acc) ==
    IF i > Len(rs) THEN acc
    ELSE IF acc.used[i] THEN outer_loop(rs, hT, vT, i + 1, acc)
    ELSE LET st == grow_group(rs, hT, vT,
                      [group     |-> <<rs[i]>>,
                       group_idx |-> <<i>>,
                       used      |-> [acc.used EXCEPT ![i] = TRUE],
                       changed   |-> TRUE])
         IN  outer_loop(rs, hT, vT, i + 1,
                        [used   |-> st.used,
                         merged |-> Append(acc.merged, bounding_box(st.group)),
                         groups |-> Append(acc.groups, st.group_idx)])

\* lines 171-228: the whole function; .merged is the returned list and
\* .groups the member indices of each returned rectangle
merge_nearby_rectangles_full(rs_xywh, hT, vT) ==
    IF rs_xywh = <<>> THEN [used |-> <<>>, merged |-> <<>>, groups |-> <<>>]
    ELSE outer_loop([k \in 1..Len(rs_xywh) |-> ToCorners(rs_xywh[k])], hT, vT, 1,
                    [used   |-> [k \in 1..Len(rs_xywh) |-> FALSE],
                     merged |-> <<>>,
                     groups |-> <<>>])

merge_nearby_rectangles(rs_xywh, hT, vT) ==
    merge_nearby_rectangles_full(rs_xywh, hT, vT).merged

----------------------------------------------------------------------------
(* SpecMerge: merge_nearby_rectangles step by step *)

MergeInit ==
    /\ rectangles \in SeqsUpTo(RectPool, MaxRects)
    /\ horizontal_threshold \in HThreshPool
    /\ vertical_threshold \in VThreshPool
    /\ rects = <<>>
    /\ used = <<>>
    /\ outer_i = 0
    /\ group = <<>>
    /\ group_idx = <<>>
    /\ changed = FALSE
    /\ merged = <<>>
    /\ groups = <<>>
    /\ scans = 0
    /\ mpc = "call"
    /\ extract_highlights = TRUE
    /\ extract_handwriting = TRUE
    /\ num_pages = 0
    /\ page_num = 0
    /\ extracted_items = <<>>
    /\ origin = <<>>
    /\ images = {}
    /\ dropped = <<>>
    /\ summary = <<>>
    /\ doc_pages = <<>>
    /\ pc = "idle"
    /\ ca_annot = Annot("Square", NoKey, NoKey, <<0, 0, 0, 0>>)
    /\ ca_highlights = TRUE
    /\ ca_handwriting = TRUE
    /\ ca_result = FALSE
    /\ ca_pc = "idle"
    /\ XIdle

\* lines 183-184
MergeEmpty ==
    /\ mpc = "call"
    /\ rectangles = <<>>
    /\ mpc' = "done"
    /\ UNCHANGED dvars
    /\ UNCHANGED cvars
    /\ UNCHANGED xvars
    /\ UNCHANGED <<rectangles, horizontal_threshold, vertical_threshold, rects, used,
                   outer_i, group, group_idx, changed, merged, groups, scans>>

\* lines 186-190
MergeSetup ==
    /\ mpc = "call"
    /\ rectangles # <<>>
    /\ rects' = [k \in 1..Len(rectangles) |-> ToCorners(rectangles[k])]
    /\ used' = [k \in 1..Len(rectangles) |-> FALSE]
    /\ merged' = <<>>
    /\ groups' = <<>>
    /\ outer_i' = 1
    /\ mpc' = "outer"
    /\ UNCHANGED dvars
    /\ UNCHANGED cvars
    /\ UNCHANGED xvars
    /\ UNCHANGED <<rectangles, horizontal_threshold, vertical_threshold,
                   group, group_idx, changed, scans>>

\* lines 192-194: "if used[i]: continue"
OuterSkip ==
    /\ mpc = "outer"
    /\ outer_i <= Len(rects)
    /\ used[outer_i]
    /\ outer_i' = outer_i + 1
    /\ UNCHANGED dvars
    /\ UNCHANGED cvars
    /\ UNCHANGED xvars
    /\ UNCHANGED <<rectangles, horizontal_threshold, vertical_threshold, rects, used,
                   group, group_idx, changed, merged, groups, scans, mpc>>

\* lines 196-201: start a new group with rects[i]
OuterStartGroup ==
    /\ mpc = "outer"
    /\ outer_i <= Len(rects)
    /\ ~used[outer_i]
    /\ group' = <<rects[outer_i]>>
    /\ group_idx' = <<outer_i>>
    /\ used' = [used EXCEPT ![outer_i] = TRUE]
    /\ changed' = TRUE
    /\ scans' = 0
    /\ mpc' = "while"
    /\ UNCHANGED dvars
    /\ UNCHANGED cvars
    /\ UNCHANGED xvars
    /\ UNCHANGED <<rectangles, horizontal_threshold, vertical_threshold, rects,
                   outer_i, merged, groups>>

\* lines 202-218: one iteration of "while changed" (a full scan over rects)
WhileScan ==
    /\ mpc = "while"
    /\ changed
    /\ LET st == scan_pass(rects, horizontal_threshold, vertical_threshold, 1,
                           [group |-> group, group_idx |-> group_idx,
                            used |-> used, changed |-> FALSE])
       IN  /\ group' = st.group
           /\ group_idx' = st.group_idx
           /\ used' = st.used
           /\ changed' = st.changed
    /\ scans' = scans + 1
    /\ UNCHANGED dvars
    /\ UNCHANGED cvars
    /\ UNCHANGED xvars
    /\ UNCHANGED <<rectangles, horizontal_threshold, vertical_threshold, rects,
                   outer_i, merged, groups, mpc>>

\* lines 220-226: the while loop ended; append the group's bounding box
WhileExit ==
    /\ mpc = "while"
    /\ ~changed
    /\ merged' = Append(merged, bounding_box(group))
    /\ groups' = Append(groups, group_idx)
    /\ outer_i' = outer_i + 1
    /\ mpc' = "outer"
    /\ UNCHANGED dvars
    /\ UNCHANGED cvars
    /\ UNCHANGED xvars
    /\ UNCHANGED <<rectangles, horizontal_threshold, vertical_threshold, rects, used,
                   group, group_idx, changed, scans>>

\* line 228: return merged
OuterExit ==
    /\ mpc = "outer"
    /\ outer_i > Len(rects)
    /\ mpc' = "done"
    /\ UNCHANGED dvars
    /\ UNCHANGED cvars
    /\ UNCHANGED xvars
    /\ UNCHANGED <<rectangles, horizontal_threshold, vertical_threshold, rects, used,
                   outer_i, group, group_idx, changed, merged, groups, scans>>

MergeNext ==
    \/ MergeEmpty
    \/ MergeSetup
    \/ OuterSkip
    \/ OuterStartGroup
    \/ WhileScan
    \/ WhileExit
    \/ OuterExit

SpecMerge == MergeInit /\ [][MergeNext]_vars

----------------------------------------------------------------------------
(* Properties of merge_nearby_rectangles (checked under SpecMerge) *)

RangeOf(f) == {f[k] : k \in DOMAIN f}

\* the step-by-step run and the function computed in one go agree
StepsMatchFunction ==
    mpc = "done" =>
        LET r == merge_nearby_rectangles_full(rectangles, horizontal_threshold,
                                              vertical_threshold)
        IN  merged = r.merged /\ groups = r.groups

\* input rectangles a and b (indices) ended in the same group
SameGroup(a, b) ==
    \E g \in 1..Len(groups) : a \in RangeOf(groups[g]) /\ b \in RangeOf(groups[g])

\* a and b satisfy rectangles_should_merge directly
Linked(a, b) ==
    rectangles_should_merge(ToCorners(rectangles[a]), ToCorners(rectangles[b]),
                            horizontal_threshold, vertical_threshold)

\* the indices reachable from S by chains of directly linked input rectangles
RECURSIVE ChainClosure(_)
ChainClosure(S) ==
    LET T == S \cup {b \in 1..Len(rectangles) : \E a \in S : Linked(a, b) \/ Linked(b, a)}
    IN  IF T = S THEN S ELSE ChainClosure(T)

\* C1: two input rectangles are in the same group iff a chain of input
\* rectangles, each consecutive pair satisfying rectangles_should_merge, links
\* them; A, B, C with hThresh = 20 end in one group although A and C do not
\* merge directly.
C1_ConnectedComponents ==
    mpc = "done" =>
        /\ \A a, b \in 1..Len(rectangles) : SameGroup(a, b) <=> b \in ChainClosure({a})
        /\ \A a, b, c \in 1..Len(rectangles) :
              (/\ Len(rectangles) = 3
               /\ rectangles[a] = RectA /\ rectangles[b] = RectB /\ rectangles[c] = RectC
               /\ horizontal_threshold = 20) =>
                  /\ Len(merged) = 1
                  /\ SameGroup(a, c)
                  /\ ~Linked(a, c)
                  /\ Linked(a, b) /\ Linked(b, c)

C1_Witness ==
    /\ mpc = "done"
    /\ rectangles = <<RectA, RectC, RectB>>
    /\ horizontal_threshold = 20
    /\ groups = <<<<1, 3, 2>>>>
    /\ merged = <<<<0, 0, 60, 10>>>>
    /\ scans = 3

\* the collection of groups of a result: bounding box and member count of each
GroupBag(r) ==
    LET item(g) == <<r.merged[g], Len(r.groups[g])>>
        items == {item(g) : g \in 1..Len(r.merged)}
    IN  [x \in items |-> Cardinality({g \in 1..Len(r.merged) : item(g) = x})]

Permuted(p) == [k \in 1..Len(rectangles) |-> rectangles[p[k]]]

\* C2: for every permutation of the input list and the same thresholds the
\* collection of groups (bounding boxes with member counts) is the same.
C2_OrderIndependent ==
    mpc = "done" =>
        \A p \in Permutations(1..Len(rectangles)) :
            GroupBag(merge_nearby_rectangles_full(Permuted(p), horizontal_threshold,
                                                  vertical_threshold))
              = GroupBag([merged |-> merged, groups |-> groups])

\* a run on three distinct rectangles whose result list depends on the order
\* (two groups, listed in the order their seeds appear)
C2_Witness ==
    /\ mpc = "done"
    /\ Len(rectangles) = 3
    /\ Len(merged) = 2
    /\ \E p \in Permutations(1..3) :
          merge_nearby_rectangles(Permuted(p), horizontal_threshold, vertical_threshold)
             # merged

\* two different output bounding boxes satisfy rectangles_should_merge
OutputsStillMerge ==
    \E a, b \in 1..Len(merged) :
        /\ a # b
        /\ rectangles_should_merge(ToCorners(merged[a]), ToCorners(merged[b]),
                                   horizontal_threshold, vertical_threshold)

SecondPass == merge_nearby_rectangles(merged, horizontal_threshold, vertical_threshold)

\* C3 as stated: a second pass over the output returns the same rectangles,
\* i.e. no two output bounding boxes satisfy rectangles_should_merge.
C3_Original ==
    mpc = "done" => (SecondPass = merged /\ ~OutputsStillMerge)

\* C3 amended: a second pass over the output returns the same rectangles
\* exactly when no two output bounding boxes satisfy rectangles_should_merge
\* (which the first pass does not guarantee); it never returns more rectangles.
C3_IdempotentIffSeparated ==
    mpc = "done" =>
        /\ (SecondPass = merged) <=> ~OutputsStillMerge
        /\ Len(SecondPass) <= Len(merged)

\* the bounding box of the group {D, E} comes within the thresholds of F
C3_Witness ==
    /\ mpc = "done"
    /\ Len(merged) = 2
    /\ OutputsStillMerge
    /\ Len(SecondPass) = 1

HGap(a, b) == MaxOf({0, b[1] - a[3], a[1] - b[3]})
VGap(a, b) == MaxOf({0, b[2] - a[4], a[2] - b[4]})

\* C4: rectangles_should_merge is true exactly when the horizontal gap is at
\* most hThresh and the vertical gap at most vThresh, and it is symmetric.
C4_MergePredicate ==
    \A a, b \in 1..Len(rects) :
        /\ rectangles_should_merge(rects[a], rects[b], horizontal_threshold, vertical_threshold)
             <=> (/\ HGap(rects[a], rects[b]) <= horizontal_threshold
                  /\ VGap(rects[a], rects[b]) <= vertical_threshold)
        /\ rectangles_should_merge(rects[a], rects[b], horizontal_threshold, vertical_threshold)
             <=> rectangles_should_merge(rects[b], rects[a], horizontal_threshold, vertical_threshold)

\* a gap equal to the threshold merged two rectangles, a gap one pixel larger
\* kept a third one apart
C4_Witness ==
    /\ mpc = "done"
    /\ Len(groups) = 2
    /\ \E a, b, c \in 1..Len(rects) :
          /\ SameGroup(a, b) /\ ~SameGroup(a, c)
          /\ VGap(rects[a], rects[b]) = vertical_threshold
          /\ VGap(rects[a], rects[b]) > 0
          /\ HGap(rects[a], rects[b]) <= horizontal_threshold
          /\ HGap(rects[a], rects[c]) = horizontal_threshold + 1
          /\ VGap(rects[a], rects[c]) <= vertical_threshold

\* C5: two rectangles that overlap (rectangles_overlap) satisfy
\* rectangles_should_merge and so land in the same group.
C5_OverlapMerges ==
    \A a, b \in 1..Len(rectangles) :
        rectangles_overlap(rectangles[a], rectangles[b]) =>
            /\ rectangles_should_merge(ToCorners(rectangles[a]), ToCorners(rectangles[b]),
                                       horizontal_threshold, vertical_threshold)
            /\ mpc = "done" => SameGroup(a, b)

C5_Witness ==
    /\ mpc = "done"
    /\ \E a, b \in 1..Len(rectangles) :
          /\ rectangles[a] # rectangles[b]
          /\ rectangles_overlap(rectangles[a], rectangles[b])
          /\ SameGroup(a, b)

\* corner form of input rectangle a
In(a) == <<rectangles[a][1], rectangles[a][2],
           rectangles[a][1] + rectangles[a][3], rectangles[a][2] + rectangles[a][4]>>

\* C20: each returned rectangle is the bounding box (minimum x0/y0, maximum
\* x1/y1 over the members) of one group, as (x, y, width, height); there are
\* as many rectangles as groups; every input rectangle is in exactly one
\* group and inside that group's rectangle; empty input gives empty output.
C20_BoundingBoxes ==
    mpc = "done" =>
        /\ Len(merged) = Len(groups)
        /\ \A g \in 1..Len(groups) :
              LET mem == RangeOf(groups[g])
                  x0 == MinOf({In(a)[1] : a \in mem})
                  y0 == MinOf({In(a)[2] : a \in mem})
                  x1 == MaxOf({In(a)[3] : a \in mem})
                  y1 == MaxOf({In(a)[4] : a \in mem})
              IN  /\ mem # {}
                  /\ mem \subseteq 1..Len(rectangles)
                  /\ Cardinality(mem) = Len(groups[g])
                  /\ merged[g] = <<x0, y0, x1 - x0, y1 - y0>>
        /\ \A a \in 1..Len(rectangles) :
              /\ Cardinality({g \in 1..Len(groups) : a \in RangeOf(groups[g])}) = 1
              /\ \A g \in 1..Len(groups) :
                    a \in RangeOf(groups[g]) =>
                        /\ merged[g][1] <= In(a)[1]
                        /\ merged[g][2] <= In(a)[2]
                        /\ In(a)[3] <= merged[g][1] + merged[g][3]
                        /\ In(a)[4] <= merged[g][2] + merged[g][4]
        /\ rectangles = <<>> => merged = <<>>

\* a group of several rectangles whose box is larger than each of them, next
\* to a second group
C20_Witness ==
    /\ mpc = "done"
    /\ Len(merged) = 2
    /\ \E g \in 1..Len(groups) :
          /\ Len(groups[g]) >= 2
          /\ \A a \in RangeOf(groups[g]) : rectangles[a] # merged[g]

----------------------------------------------------------------------------
(* extract_highlights_and_red_annotations: inputs *)

MaxPages == 2

\* program constants
Zoom == 3
AnnotPadding == 10
GroupPadding == 15
YellowMinArea == 500
RedMinArea == 200
YellowHThreshold == 100
YellowVThreshold == 50
RedHThreshold == 80
RedVThreshold == 40

AnnotInside   == Annot("Highlight", Colour(Yellow), NoKey, <<20, 20, 40, 30>>)
AnnotTopLeft  == Annot("Ink", Colour(Red), NoKey, <<2, 2, 21, 21>>)
AnnotEdge     == Annot("Ink", Colour(Red), NoKey, <<580, 790, 610, 820>>)
AnnotLeftOff  == Annot("Highlight", Colour(Yellow), NoKey, <<-40, 20, -20, 30>>)
AnnotAboveOff == Annot("FreeText", Colour(Red), NoKey, <<20, -60, 40, -30>>)
AnnotZeroLeft == Annot("Highlight", Colour(Yellow), NoKey, <<-30, 20, -7, 30>>)
AnnotRightOff == Annot("Squiggly", Colour(Yellow), NoKey, <<640, 20, 660, 30>>)
AnnotBlue     == Annot("Underline", Colour(Blue), NoKey, <<20, 20, 40, 30>>)
AnnotSquare   == Annot("Square", Colour(Yellow), NoKey, <<20, 20, 40, 30>>)

AnnotListPool ==
    { <<>>,
      <<AnnotInside>>,
      <<AnnotZeroLeft, AnnotInside>>,
      <<AnnotLeftOff>>,
      <<AnnotAboveOff, AnnotTopLeft>>,
      <<AnnotEdge, AnnotBlue>>,
      <<AnnotRightOff, AnnotSquare, AnnotEdge>> }

\* A contour found in a colour mask: its bounding rectangle (x, y, w, h), its
\* area and the mask it was found in
Contour(m, r, a) == [mask |-> m, rect |-> r, area |-> a]

\* A rendered page: its size and the contours cv2.findContours returns for
\* the yellow and the red mask
PageImage(w, h, yc, rc) ==
    [width |-> w, height |-> h, yellow_contours |-> yc, red_contours |-> rc]

PageBlank == PageImage(900, 1200, <<>>, <<>>)

PageTwoYellow ==
    PageImage(900, 1200,
              <<Contour("yellow", <<100, 100, 50, 20>>, 900),
                Contour("yellow", <<160, 100, 50, 20>>, 900)>>,
              <<>>)

PageSameCoords ==
    PageImage(900, 1200,
              <<Contour("yellow", <<100, 100, 50, 20>>, 900),
                Contour("yellow", <<400, 400, 30, 20>>, 500)>>,
              <<Contour("red", <<100, 100, 50, 20>>, 900),
                Contour("red", <<120, 130, 25, 10>>, 200),
                Contour("red", <<700, 900, 25, 10>>, 201)>>)

PageSmall ==
    PageImage(120, 90,
              <<Contour("yellow", <<90, 60, 30, 30>>, 800)>>,
              <<Contour("red", <<5, 5, 30, 30>>, 600)>>)

PageLShape ==
    PageImage(900, 1200,
              <<Contour("yellow", <<0, 0, 20, 600>>, 11000),
                Contour("yellow", <<0, 580, 600, 20>>, 11000),
                Contour("yellow", <<300, 200, 40, 40>>, 1500)>>,
              <<>>)

\* as PageLShape, the third contour touching the right edge of the bounding
\* box of the other two
PageLTouch ==
    PageImage(900, 1200,
              <<Contour("yellow", <<0, 0, 20, 600>>, 11000),
                Contour("yellow", <<0, 580, 600, 20>>, 11000),
                Contour("yellow", <<600, 200, 40, 40>>, 1500)>>,
              <<>>)

PageImagePool ==
    {PageBlank, PageTwoYellow, PageSameCoords, PageSmall, PageLShape, PageLTouch}

\* The pages a document is built from: an annotation list with the image the
\* page renders to. Every list occurs on a page without coloured pixels,
\* every image on a page without annotations, and some pages have both.
PageContentPool ==
    {<<annots, PageBlank>> : annots \in AnnotListPool}
    \cup {<<(<<>>), img>> : img \in PageImagePool}
    \cup { <<(<<AnnotInside>>), PageLShape>>,
            <<(<<AnnotEdge, AnnotBlue>>), PageSameCoords>>,
            <<(<<AnnotAboveOff, AnnotTopLeft>>), PageSmall>>,
            <<(<<AnnotRightOff, AnnotSquare, AnnotEdge>>), PageTwoYellow>> }

----------------------------------------------------------------------------
(* extract_highlights_and_red_annotations: helpers *)

Max2(a, b) == IF a >= b THEN a ELSE b
Min2(a, b) == IF a <= b THEN a ELSE b

\* int(): truncation towards zero of num / den (den > 0)
int_trunc(num, den) == IF num >= 0 THEN num \div den ELSE -((-num) \div den)

\* lines 89-92: int(rect.x0 * 3.0) for a coordinate given in half points
to_pixels(c) == int_trunc(c * Zoom, 2)

\* dict.get(key, default) on annot.colors
colors_get(colors, key, default) ==
    IF colors[key].present THEN colors[key].value ELSE default

\* faulty variant: the red component compared with >= 0.7
should_extract_annotation_ge(annot, annot_type, eh, ew) ==
    IF annot_type \in {"Highlight", "Squiggly", "StrikeOut", "Underline"}
    THEN IF ~eh THEN FALSE
         ELSE LET color == colors_get(annot.colors, "stroke",
                                      colors_get(annot.colors, "fill", <<0, 0, 0>>))
              IN  /\ Len(color) >= 3
                  /\ color[1] >= 7 /\ color[2] > 7 /\ color[3] < 5
    ELSE IF annot_type \in {"Ink", "FreeText"}
    THEN IF ~ew THEN FALSE
         ELSE LET color == colors_get(annot.colors, "stroke", <<0, 0, 0>>)
              IN  /\ Len(color) >= 3
                  /\ color[1] >= 7 /\ color[2] < 3 /\ color[3] < 3
    ELSE FALSE

should_extract_annotation(annot, annot_type, eh, ew) ==
    IF annot_type \in {"Highlight", "Squiggly", "StrikeOut", "Underline"}
    THEN IF ~eh THEN FALSE
         ELSE LET color == colors_get(annot.colors, "stroke",
                                      colors_get(annot.colors, "fill", <<0, 0, 0>>))
              IN  /\ Len(color) >= 3
                  /\ color[1] > 7 /\ color[2] > 7 /\ color[3] < 5
    ELSE IF annot_type \in {"Ink", "FreeText"}
    THEN IF ~ew THEN FALSE
         ELSE LET color == colors_get(annot.colors, "stroke", <<0, 0, 0>>)
              IN  /\ Len(color) >= 3
                  /\ color[1] > 7 /\ color[2] < 3 /\ color[3] < 3
    ELSE FALSE

\* number of elements of a[start:stop] for a numpy axis of length n
slice_len(n, start, stop) ==
    LET norm(v) == IF v < 0 THEN Max2(v + n, 0) ELSE Min2(v, n)
    IN  Max2(0, norm(stop) - norm(start))

\* page_img[y1:y2, x1:x2].size
region_size(img, x1, y1, x2, y2) ==
    slice_len(img.height, y1, y2) * slice_len(img.width, x1, x2) * 3

\* the f-strings of lines 106, 298 and 349: page_{page}_{label}_{index}.png
format_filename(page, label, index) == <<"page", page, label, index, "png">>

\* faulty variant: the right and bottom edges are not clamped to the page
clamp_high_missing(limit, v) == v

\* lines 98-99, 292-293: min(page_img.shape[..], v)
clamp_high(limit, v) == Min2(limit, v)

\* faulty variant: the left and top edges are not clamped to 0
clamp_low_missing(v) == v

\* lines 96-97, 290-291: max(0, v)
clamp_low(v) == Max2(0, v)

\* faulty variant: the crop is kept whatever its size
region_nonempty_always(img, x1, y1, x2, y2) == TRUE

\* lines 104, 297, 348: extracted_region.size > 0
region_nonempty(img, x1, y1, x2, y2) == region_size(img, x1, y1, x2, y2) > 0

\* acc = [items, origin, images, dropped]; base = number of records of the
\* document that precede acc.items
EmptyAcc == [items |-> <<>>, origin |-> <<>>, images |-> {}, dropped |-> <<>>]

\* lines 86-117: one native annotation that passed should_extract_annotation;
\* n_items is len(extracted_items) before it
extract_annotation(annot, img, pnum, n_items, acc) ==
    LET rx1 == to_pixels(annot.rect[1])
        ry1 == to_pixels(annot.rect[2])
        rx2 == to_pixels(annot.rect[3])
        ry2 == to_pixels(annot.rect[4])
        padding == AnnotPadding
        x1 == clamp_low(rx1 - padding)
        y1 == clamp_low(ry1 - padding)
        x2 == clamp_high(img.width, rx2 + padding)
        y2 == clamp_high(img.height, ry2 + padding)
        coords == [x1 |-> x1, y1 |-> y1, x2 |-> x2, y2 |-> y2]
        filename == format_filename(pnum + 1, annot.type, n_items + 1)
        src == [source |-> "native", raw |-> <<rx1, ry1, rx2, ry2>>,
                padding |-> padding, width |-> img.width, height |-> img.height,
                members |-> {}, page |-> pnum + 1]
    IN  IF region_nonempty(img, x1, y1, x2, y2)
        THEN [acc EXCEPT
                !.items = Append(@, [page |-> pnum + 1, type |-> annot.type,
                                     filename |-> filename, coordinates |-> coords]),
                !.origin = Append(@, src),
                !.images = @ \cup {filename}]
        ELSE [acc EXCEPT
                !.dropped = Append(@, [at |-> n_items, coordinates |-> coords,
                                       page |-> pnum + 1, source |-> src.source])]

\* lines 81-117: the annotation loop from index k on; base is
\* len(extracted_items) when the page started
RECURSIVE annotation_loop(_, _, _, _, _, _, _, _)
annotation_loop(annots, k, img, pnum, base, eh, ew, acc) ==
    IF k > Len(annots) THEN acc
    ELSE IF should_extract_annotation(annots[k], annots[k].type, eh, ew)
         THEN annotation_loop(annots, k + 1, img, pnum, base, eh, ew,
                  extract_annotation(annots[k], img, pnum, base + Len(acc.items), acc))
         ELSE annotation_loop(annots, k + 1, img, pnum, base, eh, ew, acc)

\* lines 277-281, 328-332: contours whose area exceeds min_area, in order
filter_contours(contours, min_area) ==
    LET keep(c) == c.area > min_area
    IN  SelectSeq(contours, keep)

\* faulty variant: the red candidate list also receives the yellow candidates
red_candidates_mixed(img) ==
    filter_contours(img.yellow_contours, YellowMinArea)
        \o filter_contours(img.red_contours, RedMinArea)

\* lines 276-281: yellow_rects, with the contour each rectangle came from
yellow_candidates(img) == filter_contours(img.yellow_contours, YellowMinArea)

\* lines 327-332: red_rects, with the contour each rectangle came from
red_candidates(img) == filter_contours(img.red_contours, RedMinArea)

rects_of(cands) == [k \in 1..Len(cands) |-> cands[k].rect]

\* faulty variant: rectangles that only touch the box are not counted
individual_regions_strict(box, rs) ==
    Cardinality({k \in 1..Len(rs) :
        ~(box[1] + box[3] <= rs[k][1] \/ rs[k][1] + rs[k][3] <= box[1]
          \/ box[2] + box[4] <= rs[k][2] \/ rs[k][2] + rs[k][4] <= box[2])})

\* lines 302-308, 353-359: len([r for r in rects if rectangles_overlap(box, r)])
individual_regions(box, rs) ==
    Cardinality({k \in 1..Len(rs) : rectangles_overlap(box, rs[k])})

\* lines 287-310 (label "yellow_highlight_group") and 338-361 (label
\* "red_mark_group"): one merged rectangle, g-th of the merge result m;
\* n_items is start_index + len(extracted_items) before it
extract_group(img, pnum, n_items, label, cands, m, g, acc) ==
    LET x == m.merged[g][1]
        y == m.merged[g][2]
        w == m.merged[g][3]
        h == m.merged[g][4]
        padding == GroupPadding
        x1 == clamp_low(x - padding)
        y1 == clamp_low(y - padding)
        x2 == clamp_high(img.width, x + w + padding)
        y2 == clamp_high(img.height, y + h + padding)
        coords == [x1 |-> x1, y1 |-> y1, x2 |-> x2, y2 |-> y2]
        filename == format_filename(pnum + 1, label, n_items + 1)
        src == [source |-> "color", raw |-> <<x, y, x + w, y + h>>,
                padding |-> padding, width |-> img.width, height |-> img.height,
                members |-> {cands[m.groups[g][k]] : k \in 1..Len(m.groups[g])},
                page |-> pnum + 1]
    IN  IF region_nonempty(img, x1, y1, x2, y2)
        THEN [acc EXCEPT
                !.items = Append(@, [page |-> pnum + 1, type |-> label,
                                     filename |-> filename, coordinates |-> coords,
                                     individual_regions |->
                                         individual_regions(m.merged[g], rects_of(cands))]),
                !.origin = Append(@, src),
                !.images = @ \cup {filename}]
        ELSE [acc EXCEPT
                !.dropped = Append(@, [at |-> n_items, coordinates |-> coords,
                                       page |-> pnum + 1, source |-> src.source])]

\* faulty variant: every group of the call gets the number start_index + 1
RECURSIVE group_loop_fixed_index(_, _, _, _, _, _, _, _)
group_loop_fixed_index(img, pnum, start_index, label, cands, m, g, acc) ==
    IF g > Len(m.merged) THEN acc
    ELSE group_loop_fixed_index(img, pnum, start_index, label, cands, m, g + 1,
             extract_group(img, pnum, start_index, label, cands, m, g, acc))

\* the "for i, (x, y, w, h) in enumerate(merged_...)" loops from index g on
RECURSIVE group_loop(_, _, _, _, _, _, _, _)
group_loop(img, pnum, start_index, label, cands, m, g, acc) ==
    IF g > Len(m.merged) THEN acc
    ELSE group_loop(img, pnum, start_index, label, cands, m, g + 1,
             extract_group(img, pnum, start_index + Len(acc.items), label, cands, m, g, acc))

\* faulty variant: the red block is entered only when both flags are set
extract_by_color_detection_coupled(img, pnum, start_index, eh, ew) ==
    LET yc == yellow_candidates(img)
        ym == merge_nearby_rectangles_full(rects_of(yc), YellowHThreshold, YellowVThreshold)
        after_yellow ==
            IF eh THEN group_loop(img, pnum, start_index, "yellow_highlight_group",
                                  yc, ym, 1, EmptyAcc)
            ELSE EmptyAcc
        rc == red_candidates(img)
        rm == merge_nearby_rectangles_full(rects_of(rc), RedHThreshold, RedVThreshold)
    IN  IF ew /\ eh THEN group_loop(img, pnum, start_index, "red_mark_group",
                                    rc, rm, 1, after_yellow)
        ELSE after_yellow

\* lines 247-363
extract_by_color_detection(img, pnum, start_index, eh, ew) ==
    LET yc == yellow_candidates(img)
        ym == merge_nearby_rectangles_full(rects_of(yc), YellowHThreshold, YellowVThreshold)
        after_yellow ==
            IF eh THEN group_loop(img, pnum, start_index, "yellow_highlight_group",
                                  yc, ym, 1, EmptyAcc)
            ELSE EmptyAcc
        rc == red_candidates(img)
        rm == merge_nearby_rectangles_full(rects_of(rc), RedHThreshold, RedVThreshold)
    IN  IF ew THEN group_loop(img, pnum, start_index, "red_mark_group",
                              rc, rm, 1, after_yellow)
        ELSE after_yellow

\* faulty variant: the sequence numbers restart on every page
process_page_local(annots, img, pnum, n_items, eh, ew) ==
    LET native == annotation_loop(annots, 1, img, pnum, 0, eh, ew, EmptyAcc)
        color == extract_by_color_detection(img, pnum, Len(native.items), eh, ew)
    IN  [items   |-> native.items \o color.items,
         origin  |-> native.origin \o color.origin,
         images  |-> native.images \cup color.images,
         dropped |-> native.dropped \o color.dropped]

\* lines 78-121: the body of the page loop for a page whose image decoded;
\* n_items is len(extracted_items) when the page starts
process_page(annots, img, pnum, n_items, eh, ew) ==
    LET native == annotation_loop(annots, 1, img, pnum, n_items, eh, ew, EmptyAcc)
        color == extract_by_color_detection(img, pnum, n_items + Len(native.items), eh, ew)
    IN  [items   |-> native.items \o color.items,
         origin  |-> native.origin \o color.origin,
         images  |-> native.images \cup color.images,
         dropped |-> native.dropped \o color.dropped]

\* lines 60-121: the page loop over pages[k..], started with the record
\* list items; a page that raises ends the run
RECURSIVE run_pages(_, _, _, _, _)
run_pages(pages, k, eh, ew, items) ==
    IF k > Len(pages) THEN items
    ELSE IF pages[k].outcome = "raised" THEN items
    ELSE IF pages[k].outcome = "undecodable" THEN run_pages(pages, k + 1, eh, ew, items)
    ELSE run_pages(pages, k + 1, eh, ew,
                   items \o process_page(pages[k].annots, pages[k].img, k - 1,
                                         Len(items), eh, ew).items)

----------------------------------------------------------------------------
(* Spec: extract_highlights_and_red_annotations, one action per page *)

Init ==
    /\ extract_highlights \in BOOLEAN
    /\ extract_handwriting \in BOOLEAN
    /\ num_pages \in 0..MaxPages
    /\ page_num = 0
    /\ extracted_items = <<>>
    /\ origin = <<>>
    /\ images = {}
    /\ dropped = <<>>
    /\ summary = <<>>
    /\ doc_pages = <<>>
    /\ pc = "pages"
    /\ rectangles = <<>>
    /\ horizontal_threshold = 0
    /\ vertical_threshold = 0
    /\ rects = <<>>
    /\ used = <<>>
    /\ outer_i = 0
    /\ group = <<>>
    /\ group_idx = <<>>
    /\ changed = FALSE
    /\ merged = <<>>
    /\ groups = <<>>
    /\ scans = 0
    /\ mpc = "idle"
    /\ ca_annot = Annot("Square", NoKey, NoKey, <<0, 0, 0, 0>>)
    /\ ca_highlights = TRUE
    /\ ca_handwriting = TRUE
    /\ ca_result = FALSE
    /\ ca_pc = "idle"
    /\ XIdle

\* what the loop found on a page: "ok" (image decoded, body ran),
\* "undecodable" (page_img is None) or "raised"
PageRead(outcome, annots, img) == [outcome |-> outcome, annots |-> annots, img |-> img]

\* lines 62-121: one iteration of the page loop
ProcessPage ==
    /\ pc = "pages"
    /\ page_num < num_pages
    /\ \E content \in PageContentPool :
          LET annots == content[1]
              img == content[2]
              r == process_page(annots, img, page_num, Len(extracted_items),
                                extract_highlights, extract_handwriting)
          IN  /\ extracted_items' = extracted_items \o r.items
              /\ origin' = origin \o r.origin
              /\ images' = images \cup r.images
              /\ dropped' = dropped \o r.dropped
              /\ doc_pages' = Append(doc_pages, PageRead("ok", annots, img))
    /\ page_num' = page_num + 1
    /\ UNCHANGED <<extract_highlights, extract_handwriting, num_pages, summary, pc>>
    /\ UNCHANGED mvars
    /\ UNCHANGED xvars
    /\ UNCHANGED cvars

\* lines 74-76: cv2.imdecode returned None, "continue"
SkipPage ==
    /\ pc = "pages"
    /\ page_num < num_pages
    /\ page_num' = page_num + 1
    /\ doc_pages' = Append(doc_pages, PageRead("undecodable", <<>>, PageBlank))
    /\ UNCHANGED <<extract_highlights, extract_handwriting, num_pages,
                   extracted_items, origin, images, dropped, summary, pc>>
    /\ UNCHANGED mvars
    /\ UNCHANGED xvars
    /\ UNCHANGED cvars

\* lines 62-121: a call in the loop body raises (page.get_pixmap on a corrupt
\* page, cv2.cvtColor, ...); no try/except encloses the body, so the exception
\* leaves extract_highlights_and_red_annotations
PageRaises ==
    /\ pc = "pages"
    /\ page_num < num_pages
    /\ doc_pages' = Append(doc_pages, PageRead("raised", <<>>, PageBlank))
    /\ pc' = "raised"
    /\ UNCHANGED <<extract_highlights, extract_handwriting, num_pages, page_num,
                   extracted_items, origin, images, dropped, summary>>
    /\ UNCHANGED mvars
    /\ UNCHANGED xvars
    /\ UNCHANGED cvars

\* lines 123-134: the loop is over; write the summary and return
Finish ==
    /\ pc = "pages"
    /\ page_num = num_pages
    /\ summary' = extracted_items
    /\ pc' = "done"
    /\ UNCHANGED <<extract_highlights, extract_handwriting, num_pages, page_num,
                   extracted_items, origin, images, dropped, doc_pages>>
    /\ UNCHANGED mvars
    /\ UNCHANGED xvars
    /\ UNCHANGED cvars

Next ==
    \/ ProcessPage
    \/ SkipPage
    \/ PageRaises
    \/ Finish

Spec == Init /\ [][Next]_vars

----------------------------------------------------------------------------
(* Properties of extract_highlights_and_red_annotations (checked under Spec) *)

Records == 1..Len(extracted_items)

Coords(k) == extracted_items[k].coordinates

GroupCategory(type) ==
    IF type = "yellow_highlight_group" THEN "yellow"
    ELSE IF type = "red_mark_group" THEN "red"
    ELSE "none"

\* C6: a yellow-highlight candidate and a red-mark candidate are never in the
\* same group; every emitted group holds candidates of exactly one category
\* (that of the record's type) of one page.
C6_CategoryIsolation ==
    \A k \in Records :
        origin[k].source = "color" =>
            /\ origin[k].members # {}
            /\ GroupCategory(extracted_items[k].type) \in {"yellow", "red"}
            /\ \A c \in origin[k].members :
                  c.mask = GroupCategory(extracted_items[k].type)
            /\ origin[k].page = extracted_items[k].page

\* a yellow and a red candidate with identical coordinates on one page ended
\* in two different groups
C6_Witness ==
    \E j, k \in Records :
        /\ extracted_items[j].type = "yellow_highlight_group"
        /\ extracted_items[k].type = "red_mark_group"
        /\ extracted_items[j].page = extracted_items[k].page
        /\ \E cy \in origin[j].members, cr \in origin[k].members :
              cy.rect = cr.rect /\ cy.mask = "yellow" /\ cr.mask = "red"

\* C7 as stated: every record has all four coordinates inside the page,
\* 0 <= x1, x2 <= pageWidth and 0 <= y1, y2 <= pageHeight.
C7_CoordinatesOnPage ==
    \A k \in Records :
        /\ 0 <= Coords(k).x1 /\ Coords(k).x1 <= origin[k].width
        /\ 0 <= Coords(k).x2 /\ Coords(k).x2 <= origin[k].width
        /\ 0 <= Coords(k).y1 /\ Coords(k).y1 <= origin[k].height
        /\ 0 <= Coords(k).y2 /\ Coords(k).y2 <= origin[k].height

\* C8: a right (bottom) edge plus padding beyond the page gives x2 (y2)
\* exactly pageWidth (pageHeight); a left (top) edge minus padding below zero
\* gives exactly 0.
C8_ClampExact ==
    \A k \in Records :
        LET o == origin[k]
        IN  /\ o.raw[3] + o.padding > o.width  => Coords(k).x2 = o.width
            /\ o.raw[4] + o.padding > o.height => Coords(k).y2 = o.height
            /\ o.raw[1] - o.padding < 0        => Coords(k).x1 = 0
            /\ o.raw[2] - o.padding < 0        => Coords(k).y1 = 0

\* one record clamped at the right and bottom edge, one at the left and top
C8_Witness ==
    /\ \E k \in Records :
          /\ origin[k].raw[3] + origin[k].padding > origin[k].width
          /\ origin[k].raw[4] + origin[k].padding > origin[k].height
          /\ Coords(k).x2 = origin[k].width
          /\ Coords(k).y2 = origin[k].height
    /\ \E k \in Records :
          /\ origin[k].raw[1] - origin[k].padding < 0
          /\ origin[k].raw[2] - origin[k].padding < 0
          /\ Coords(k).x1 = 0
          /\ Coords(k).y1 = 0

ZeroArea(c) == c.x1 = c.x2 \/ c.y1 = c.y2

\* C9: a padded and clamped rectangle with x1 = x2 or y1 = y2 gives no
\* record and no image, and does not advance the numbering of later records.
C9_ZeroAreaRejected ==
    /\ \A k \in Records : ~ZeroArea(Coords(k))
    /\ images = {extracted_items[k].filename : k \in Records}
    /\ \A k \in Records : extracted_items[k].filename[4] = k

\* a zero-area region was skipped and the next record took its number
C9_Witness ==
    \E d \in 1..Len(dropped) :
        /\ ZeroArea(dropped[d].coordinates)
        /\ dropped[d].at + 1 \in Records
        /\ extracted_items[dropped[d].at + 1].filename[4] = dropped[d].at + 1
        /\ extracted_items[dropped[d].at + 1].page = dropped[d].page
        /\ Cardinality(images) = Len(extracted_items)

\* C10 as stated: every record has positive area, x1 < x2 and y1 < y2.
C10_PositiveArea ==
    \A k \in Records :
        Coords(k).x1 < Coords(k).x2 /\ Coords(k).y1 < Coords(k).y2


\* the pages read so far are numbered from 1; the records of page p
OkPages == {p \in 1..Len(doc_pages) : doc_pages[p].outcome = "ok"}
PageRecords(p) == {k \in Records : extracted_items[k].page = p}
YellowGroups(p) == {k \in PageRecords(p) : extracted_items[k].type = "yellow_highlight_group"}
RedGroups(p) == {k \in PageRecords(p) : extracted_items[k].type = "red_mark_group"}

CoordsAre(k, x1, y1, x2, y2) ==
    Coords(k) = [x1 |-> x1, y1 |-> y1, x2 |-> x2, y2 |-> y2]

\* C11 as stated: the 900x1200 page with yellow candidates (100,100)-(150,120)
\* and (160,100)-(210,120) gives exactly one yellow group record, with
\* coordinates (90,85)-(220,135) and individual_regions = 2.
C11_Original ==
    \A p \in OkPages :
        (doc_pages[p].img = PageTwoYellow /\ extract_highlights) =>
            /\ Cardinality(YellowGroups(p)) = 1
            /\ \A k \in YellowGroups(p) :
                  /\ CoordsAre(k, 90, 85, 220, 135)
                  /\ extracted_items[k].individual_regions = 2

\* C11 amended: the same page gives exactly one yellow group record, with
\* coordinates (85,85)-(225,135), the box (100,100)-(210,120) padded by 15 on
\* every side, and individual_regions = 2.
C11_Scenario ==
    \A p \in OkPages :
        (doc_pages[p].img = PageTwoYellow /\ extract_highlights) =>
            /\ Cardinality(YellowGroups(p)) = 1
            /\ \A k \in YellowGroups(p) :
                  /\ CoordsAre(k, 85, 85, 225, 135)
                  /\ extracted_items[k].individual_regions = 2
                  /\ origin[k].raw = <<100, 100, 210, 120>>

C11_Witness ==
    \E p \in OkPages :
        /\ doc_pages[p].img = PageTwoYellow
        /\ extract_highlights
        /\ \E k \in YellowGroups(p) :
              CoordsAre(k, 85, 85, 225, 135) /\ Cardinality(origin[k].members) = 2


\* the record list is the one the page loop computes from the pages read
ItemsMatchPages ==
    extracted_items = run_pages(doc_pages, 1, extract_highlights, extract_handwriting, <<>>)

YellowTypes == {"Highlight", "Squiggly", "StrikeOut", "Underline", "yellow_highlight_group"}
RedTypes == {"Ink", "FreeText", "red_mark_group"}

\* the regions of the given types in a record list, in order
RegionsOf(items, types) ==
    LET keep(r) == r.type \in types
        sel == SelectSeq(items, keep)
    IN  [k \in 1..Len(sel) |->
            <<sel[k].page, sel[k].type, sel[k].coordinates>>]

\* C13: with extract_highlights false there is no highlight-type record and
\* no yellow_highlight_group record, with extract_handwriting false no
\* Ink/FreeText record and no red_mark_group record, and the regions of one
\* category are the same whatever the other category's flag is.
C13_FlagsIndependent ==
    /\ ~extract_highlights => \A k \in Records : extracted_items[k].type \notin YellowTypes
    /\ ~extract_handwriting => \A k \in Records : extracted_items[k].type \notin RedTypes
    /\ \A b \in BOOLEAN :
          /\ RegionsOf(extracted_items, RedTypes)
               = RegionsOf(run_pages(doc_pages, 1, b, extract_handwriting, <<>>), RedTypes)
          /\ RegionsOf(extracted_items, YellowTypes)
               = RegionsOf(run_pages(doc_pages, 1, extract_highlights, b, <<>>), YellowTypes)

\* highlights are off, the pages read hold yellow regions and red regions,
\* and the red ones (native and group) were extracted
C13_Witness ==
    /\ ~extract_highlights
    /\ extract_handwriting
    /\ \E j, k \in Records :
          extracted_items[j].type = "Ink" /\ extracted_items[k].type = "red_mark_group"
    /\ \E r \in RangeOf(run_pages(doc_pages, 1, TRUE, TRUE, <<>>)) :
          r.type = "yellow_highlight_group"
    /\ \E r \in RangeOf(run_pages(doc_pages, 1, TRUE, TRUE, <<>>)) :
          r.type = "Highlight"

\* C15 as stated: a page whose image cannot be produced or whose processing
\* raises contributes no records, the loop goes on past it, and the summary
\* is still written.
C15_PageFailureIsolated ==
    \A p \in 1..Len(doc_pages) :
        doc_pages[p].outcome # "ok" =>
            /\ PageRecords(p) = {}
            /\ page_num >= p
            /\ pc \in {"pages", "done"}
            /\ pc = "done" => summary = extracted_items

\* the records of page p, in order
PageSeq(p) ==
    LET onpage(r) == r.page = p
    IN  SelectSeq(extracted_items, onpage)

\* the records page p yields when no record precedes it
PageAlone(p) ==
    process_page(doc_pages[p].annots, doc_pages[p].img, p - 1, 0,
                 extract_highlights, extract_handwriting).items

RecordsBefore(p) == Cardinality({k \in Records : extracted_items[k].page < p})

Renumbered(r, shift) ==
    [r EXCEPT !.filename = format_filename(r.filename[2], r.filename[3],
                                           r.filename[4] - shift)]

\* C16 as stated: the records of a page, filename included, do not depend on
\* the other pages: they are those the page yields whatever precedes it.
C16_Original ==
    \A p \in OkPages : PageSeq(p) = PageAlone(p)

\* C16 amended: the records of a page depend only on that page, except for
\* the sequence number in the filename, which is shifted by the number of
\* records of the earlier pages.
C16_PageIndependentButIndex ==
    \A p \in OkPages :
        /\ Len(PageSeq(p)) = Len(PageAlone(p))
        /\ \A j \in 1..Len(PageSeq(p)) :
              /\ Renumbered(PageSeq(p)[j], RecordsBefore(p)) = PageAlone(p)[j]
              /\ PageSeq(p)[j].filename[4] = RecordsBefore(p) + j

\* a page with records read after another page with records
C16_Witness ==
    \E p \in OkPages :
        /\ RecordsBefore(p) > 0
        /\ Len(PageSeq(p)) > 1
        /\ PageSeq(p) # PageAlone(p)

\* C17: all filenames of the record list are pairwise distinct.
C17_FilenamesDistinct ==
    \A j, k \in Records :
        j # k => extracted_items[j].filename # extracted_items[k].filename

\* one page gave a native record and two groups of the same category
C17_Witness ==
    \E p \in OkPages :
        /\ \E k \in PageRecords(p) : origin[k].source = "native"
        /\ \E j, k \in PageRecords(p) :
              /\ j # k
              /\ origin[j].source = "color"
              /\ extracted_items[j].type = extracted_items[k].type

\* the area-filtered candidates of a group record's category on its page
CandidatesOf(k) ==
    LET img == doc_pages[extracted_items[k].page].img
        all == IF extracted_items[k].type = "yellow_highlight_group"
               THEN img.yellow_contours ELSE img.red_contours
        minimum == IF extracted_items[k].type = "yellow_highlight_group"
                   THEN YellowMinArea ELSE RedMinArea
    IN  {j \in 1..Len(all) : all[j].area > minimum}

CandidateRect(k, j) ==
    LET img == doc_pages[extracted_items[k].page].img
    IN  IF extracted_items[k].type = "yellow_highlight_group"
        THEN img.yellow_contours[j].rect ELSE img.red_contours[j].rect

\* rectangle r (x, y, w, h) and box b (x1, y1, x2, y2) share at least an edge point
Touches(b, r) ==
    /\ r[1] <= b[3] /\ b[1] <= r[1] + r[3]
    /\ r[2] <= b[4] /\ b[2] <= r[2] + r[4]

CountedBy(k) == {j \in CandidatesOf(k) : Touches(origin[k].raw, CandidateRect(k, j))}

GroupRecords == {k \in Records : origin[k].source = "color"}

\* C18: individual_regions is the number of the category's area-filtered
\* candidates of the page that overlap (touching included) the group's
\* unpadded bounding box; it is at least the number of merged members and
\* at least 1.
C18_IndividualRegions ==
    \A k \in GroupRecords :
        /\ extracted_items[k].individual_regions = Cardinality(CountedBy(k))
        /\ extracted_items[k].individual_regions >= Cardinality(origin[k].members)
        /\ extracted_items[k].individual_regions >= 1

\* a group whose count includes a candidate that only touches its box and is
\* not one of its members
C18_Witness ==
    \E k \in GroupRecords :
        /\ extracted_items[k].individual_regions > Cardinality(origin[k].members)
        /\ \E j \in CountedBy(k) :
              /\ CandidateRect(k, j)[1] = origin[k].raw[3]
              /\ \A c \in origin[k].members : c.rect # CandidateRect(k, j)

RECURSIVE SumRegions(_)
SumRegions(S) ==
    IF S = {} THEN 0
    ELSE LET k == CHOOSE x \in S : TRUE
         IN  extracted_items[k].individual_regions + SumRegions(S \ {k})

NoGroupDropped(p) ==
    \A d \in 1..Len(dropped) : ~(dropped[d].page = p /\ dropped[d].source = "color")

\* C19 as stated: no candidate is counted in the individual_regions of more
\* than one group; where no group is dropped, the counts of a category's
\* groups add up to the number of its candidates.
C19_NoDoubleCount ==
    /\ \A j, k \in GroupRecords :
          (/\ j # k
           /\ extracted_items[j].page = extracted_items[k].page
           /\ extracted_items[j].type = extracted_items[k].type) =>
              CountedBy(j) \cap CountedBy(k) = {}
    /\ \A p \in OkPages :
          NoGroupDropped(p) =>
              /\ extract_highlights =>
                    SumRegions(YellowGroups(p)) = Len(yellow_candidates(doc_pages[p].img))
              /\ extract_handwriting =>
                    SumRegions(RedGroups(p)) = Len(red_candidates(doc_pages[p].img))

\* the contours of a list that ended up as members of a group of the page
Grouped(p, grp, contours) ==
    {j \in 1..Len(contours) : \E k \in grp : contours[j] \in origin[k].members}

\* C21 as stated: a component is discarded exactly when its area is below
\* the category's threshold; a component of exactly that area is a candidate.
C21_AreaFilter ==
    \A p \in OkPages :
        NoGroupDropped(p) =>
            /\ extract_highlights =>
                  Grouped(p, YellowGroups(p), doc_pages[p].img.yellow_contours)
                      = {j \in 1..Len(doc_pages[p].img.yellow_contours) :
                            doc_pages[p].img.yellow_contours[j].area >= YellowMinArea}
            /\ extract_handwriting =>
                  Grouped(p, RedGroups(p), doc_pages[p].img.red_contours)
                      = {j \in 1..Len(doc_pages[p].img.red_contours) :
                            doc_pages[p].img.red_contours[j].area >= RedMinArea}

IsPrefix(a, b) == Len(a) <= Len(b) /\ SubSeq(b, 1, Len(a)) = a

\* position of a record's source in the order each page is worked through
SourceRank(type) ==
    IF type = "yellow_highlight_group" THEN 2
    ELSE IF type = "red_mark_group" THEN 3
    ELSE 1

Numbered ==
    /\ \A k \in Records : extracted_items[k].filename[4] = k
    /\ \A j, k \in Records :
          j < k =>
              /\ extracted_items[j].page <= extracted_items[k].page
              /\ extracted_items[j].page = extracted_items[k].page =>
                    SourceRank(extracted_items[j].type) <= SourceRank(extracted_items[k].type)

\* C27: the record list only grows; the number in the filename of the k-th
\* record is k; within a page native records come first, then yellow groups,
\* then red groups; the page field never decreases; skipped pages and
\* dropped regions leave no gap.
C27_SequentialNumbering ==
    [][IsPrefix(extracted_items, extracted_items') /\ Numbered']_vars

\* a page was skipped and a region was dropped, both before later records
C27_Witness ==
    /\ \E p \in 1..Len(doc_pages) :
          /\ doc_pages[p].outcome = "undecodable"
          /\ \E k \in Records : extracted_items[k].page > p
    /\ \E d \in 1..Len(dropped) : dropped[d].at < Len(extracted_items)
    /\ Len(extracted_items) >= 2

\* the characters of a type name
Spelling(type) ==
    CASE type = "Highlight" -> <<"H", "i", "g", "h", "l", "i", "g", "h", "t">>
      [] type = "Squiggly" -> <<"S", "q", "u", "i", "g", "g", "l", "y">>
      [] type = "StrikeOut" -> <<"S", "t", "r", "i", "k", "e", "O", "u", "t">>
      [] type = "Underline" -> <<"U", "n", "d", "e", "r", "l", "i", "n", "e">>
      [] type = "Ink" -> <<"I", "n", "k">>
      [] type = "FreeText" -> <<"F", "r", "e", "e", "T", "e", "x", "t">>
      [] type = "yellow_highlight_group" ->
            <<"y", "e", "l", "l", "o", "w", "_", "h", "i", "g", "h", "l", "i", "g", "h",
              "t", "_", "g", "r", "o", "u", "p">>
      [] type = "red_mark_group" ->
            <<"r", "e", "d", "_", "m", "a", "r", "k", "_", "g", "r", "o", "u", "p">>

\* Python's "sub in text" on strings
str_in(sub, text) ==
    \E i \in 1..(Len(text) - Len(sub) + 1) : SubSeq(text, i, i + Len(sub) - 1) = sub

has_yellow(item) == str_in(<<"y", "e", "l", "l", "o", "w">>, Spelling(item.type))
has_red(item) == str_in(<<"r", "e", "d">>, Spelling(item.type))

\* main, lines 402-403
main_yellow_groups(items) == SelectSeq(items, has_yellow)
main_red_groups(items) == SelectSeq(items, has_red)

\* process_extracted_images and analyze_current_extraction: the bucket an
\* item is appended to
page_bucket(item) == IF has_yellow(item) THEN "yellow" ELSE "red"

HighlightSources ==
    {"Highlight", "Squiggly", "StrikeOut", "Underline", "yellow_highlight_group"}

\* C28 as stated: every consumer counts a record from a highlight-type
\* source as yellow and only records from mark-type sources as red, and the
\* yellow and red counts add up to the number of records.
C28_Buckets ==
    pc = "done" =>
        /\ \A k \in 1..Len(summary) :
              LET item == summary[k]
              IN  IF item.type \in HighlightSources
                  THEN has_yellow(item) /\ ~has_red(item) /\ page_bucket(item) = "yellow"
                  ELSE has_red(item) /\ ~has_yellow(item) /\ page_bucket(item) = "red"
        /\ Len(main_yellow_groups(summary)) + Len(main_red_groups(summary)) = Len(summary)

\* every group of the finer result lies inside one group of the coarser one,
\* and the coarser result has no more groups
Refines(fine, coarse) ==
    /\ \A g \in 1..Len(fine.groups) :
          \E G \in 1..Len(coarse.groups) :
              RangeOf(fine.groups[g]) \subseteq RangeOf(coarse.groups[G])
    /\ Len(coarse.groups) <= Len(fine.groups)

\* the input list six times larger: the gaps of 15 become gaps of 90
Enlarged(rs) == [k \in 1..Len(rs) |-> <<6 * rs[k][1], 6 * rs[k][2], 6 * rs[k][3], 6 * rs[k][4]>>]

UsedCount(u) == Cardinality({k \in 1..Len(u) : u[k]})

\* one step of the while loop: a scan that sets changed marks at least one
\* more rectangle as used, a scan that absorbs nothing clears changed, and
\* no used flag is ever cleared
ScanProgress ==
    /\ (mpc = "while" /\ mpc' = "while" /\ changed) =>
          /\ changed' => UsedCount(used') > UsedCount(used)
          /\ ~changed' => used' = used /\ group_idx' = group_idx
    /\ (Len(used') = Len(used)) => \A k \in 1..Len(used) : used[k] => used'[k]
    /\ \A a, b \in 1..Len(group_idx') : a # b => group_idx'[a] # group_idx'[b]
    /\ (mpc = "while" /\ ~changed) => mpc' = "outer"

\* merge_nearby_rectangles where every enabled step is eventually taken
SpecMergeFair == MergeInit /\ [][MergeNext]_vars /\ WF_vars(MergeNext)

\* C26: merge_nearby_rectangles terminates: every scan that sets changed
\* marks one more rectangle as used, used rectangles stay used and are
\* absorbed once, the loop stops at the first scan that absorbs nothing, and
\* the function returns.
C26_Terminates == [][ScanProgress]_vars /\ <>(mpc = "done")

\* a group that needed three scans: two that absorbed a rectangle and the
\* one that found nothing
C26_Witness ==
    /\ mpc = "done"
    /\ scans >= 3
    /\ Len(groups) = 1

----------------------------------------------------------------------------
(* SpecClassify: one call of should_extract_annotation *)

TypePool == {"Highlight", "Squiggly", "StrikeOut", "Underline", "Ink", "FreeText", "Square"}

\* stroke entries: missing key, None/empty, too short, four components, and
\* colours on and next to the thresholds 0.7, 0.5 and 0.3
StrokePool ==
    { NoKey, Colour(<<>>), Colour(<<10, 10>>), Colour(<<10, 10, 0, 10>>),
      Colour(Yellow), Colour(Red), Colour(Blue),
      Colour(<<7, 10, 0>>), Colour(<<8, 7, 0>>), Colour(<<8, 8, 5>>), Colour(<<8, 8, 4>>),
      Colour(<<8, 2, 2>>), Colour(<<8, 3, 2>>), Colour(<<8, 2, 3>>) }

FillPool == {NoKey, Colour(<<>>), Colour(Yellow), Colour(Red)}

ClassifyInit ==
    /\ \E t \in TypePool, st \in StrokePool, fl \in FillPool :
          ca_annot = Annot(t, st, fl, <<20, 20, 40, 30>>)
    /\ ca_highlights \in BOOLEAN
    /\ ca_handwriting \in BOOLEAN
    /\ ca_result = FALSE
    /\ ca_pc = "call"
    /\ rectangles = <<>>
    /\ horizontal_threshold = 0
    /\ vertical_threshold = 0
    /\ rects = <<>>
    /\ used = <<>>
    /\ outer_i = 0
    /\ group = <<>>
    /\ group_idx = <<>>
    /\ changed = FALSE
    /\ merged = <<>>
    /\ groups = <<>>
    /\ scans = 0
    /\ mpc = "idle"
    /\ extract_highlights = TRUE
    /\ extract_handwriting = TRUE
    /\ num_pages = 0
    /\ page_num = 0
    /\ extracted_items = <<>>
    /\ origin = <<>>
    /\ images = {}
    /\ dropped = <<>>
    /\ summary = <<>>
    /\ doc_pages = <<>>
    /\ pc = "idle"
    /\ XIdle

\* line 85: the call should_extract_annotation(annot, annot_type, ...)
Classify ==
    /\ ca_pc = "call"
    /\ ca_result' = should_extract_annotation(ca_annot, ca_annot.type,
                                              ca_highlights, ca_handwriting)
    /\ ca_pc' = "returned"
    /\ UNCHANGED <<ca_annot, ca_highlights, ca_handwriting>>
    /\ UNCHANGED mvars
    /\ UNCHANGED xvars
    /\ UNCHANGED dvars

ClassifyNext == Classify

SpecClassify == ClassifyInit /\ [][ClassifyNext]_vars

----------------------------------------------------------------------------
(* Properties of should_extract_annotation (checked under SpecClassify) *)

HighlightTypes == {"Highlight", "Squiggly", "StrikeOut", "Underline"}
MarkTypes == {"Ink", "FreeText"}

HasKey(a, key) == a.colors[key].present

\* the colour vector the function reads for an annotation of this type
ColourRead(a) ==
    IF HasKey(a, "stroke") THEN a.colors.stroke.value
    ELSE IF a.type \in HighlightTypes /\ HasKey(a, "fill") THEN a.colors.fill.value
    ELSE <<0, 0, 0>>

\* stroke colour if present, otherwise fill colour, otherwise black
StrokeFillBlack(a) ==
    IF HasKey(a, "stroke") THEN a.colors.stroke.value
    ELSE IF HasKey(a, "fill") THEN a.colors.fill.value
    ELSE <<0, 0, 0>>

IsYellow(c) == Len(c) >= 3 /\ c[1] > 7 /\ c[2] > 7 /\ c[3] < 5
IsRed(c) == Len(c) >= 3 /\ c[1] > 7 /\ c[2] < 3 /\ c[3] < 3

Expected(a, c, eh, ew) ==
    \/ a.type \in HighlightTypes /\ eh /\ IsYellow(c)
    \/ a.type \in MarkTypes /\ ew /\ IsRed(c)

\* C12: should_extract_annotation returns true exactly when (highlight type,
\* highlights enabled, colour r > 0.7, g > 0.7, b < 0.5) or (Ink/FreeText,
\* handwriting enabled, colour r > 0.7, g < 0.3, b < 0.3); any other type and
\* a missing, empty or short colour vector give false.  The colour is the
\* vector the function reads for the annotation's type.
C12_Classification ==
    ca_pc = "returned" =>
        /\ ca_result \in BOOLEAN
        /\ ca_result <=> Expected(ca_annot, ColourRead(ca_annot), ca_highlights, ca_handwriting)
        /\ ca_annot.type \notin (HighlightTypes \cup MarkTypes) => ~ca_result
        /\ Len(ColourRead(ca_annot)) < 3 => ~ca_result

\* a yellow just inside the thresholds was accepted
C12_Witness ==
    /\ ca_pc = "returned"
    /\ ca_annot.type = "Squiggly"
    /\ ca_annot.colors.stroke = Colour(<<8, 8, 4>>)
    /\ ca_result

\* C14 as stated: for every eligible type the colour used is the stroke
\* colour if present, otherwise the fill colour, otherwise black.
C14_StrokeThenFill ==
    ca_pc = "returned" =>
        (ca_result <=>
            Expected(ca_annot, StrokeFillBlack(ca_annot), ca_highlights, ca_handwriting))

----------------------------------------------------------------------------
(* SpecConfig: load_config and lines 41-47 of                              *)
(* extract_highlights_and_red_annotations                                  *)

\* an entry of the "extraction" dictionary: the key may be missing
FlagPool ==
    {[present |-> FALSE, value |-> FALSE],
     [present |-> TRUE, value |-> FALSE],
     [present |-> TRUE, value |-> TRUE]}

\* a configuration dictionary: the "extraction" key may be missing
NoSection ==
    [present |-> FALSE,
     extract_highlights |-> [present |-> FALSE, value |-> FALSE],
     extract_handwriting |-> [present |-> FALSE, value |-> FALSE]]

ConfigPool ==
    {NoSection}
    \cup {[present |-> TRUE, extract_highlights |-> eh, extract_handwriting |-> ew] :
             eh \in FlagPool, ew \in FlagPool}

\* config.json on disk
ConfigFilePool ==
    {[state |-> "absent", content |-> NoSection],
     [state |-> "invalid", content |-> NoSection]}
    \cup {[state |-> "valid", content |-> c] : c \in ConfigPool}

\* the argument config: None, or a dictionary
ConfigArgPool ==
    {[given |-> FALSE, config |-> NoSection]}
    \cup {[given |-> TRUE, config |-> c] : c \in ConfigPool}

DefaultConfig ==
    [present |-> TRUE,
     extract_highlights |-> [present |-> TRUE, value |-> TRUE],
     extract_handwriting |-> [present |-> TRUE, value |-> TRUE]]

\* faulty variant: a file that cannot be used yields an empty dictionary
\* whose flags read as off
load_config_off(file) ==
    IF file.state = "valid" THEN file.content
    ELSE [present |-> TRUE,
          extract_highlights |-> [present |-> TRUE, value |-> FALSE],
          extract_handwriting |-> [present |-> TRUE, value |-> FALSE]]

\* lines 8-29
load_config(file) ==
    IF file.state = "valid" THEN file.content
    ELSE IF file.state = "absent" THEN DefaultConfig
    ELSE DefaultConfig

\* config.get("extraction", {}).get(key, True)
get_flag(flag) == IF flag.present THEN flag.value ELSE TRUE

ConfigInit ==
    /\ cf_file \in ConfigFilePool
    /\ cf_arg \in ConfigArgPool
    /\ cf_config = NoSection
    /\ cf_highlights = FALSE
    /\ cf_handwriting = FALSE
    /\ cf_pc = "call"
    /\ CoreIdle
    /\ TuneIdle /\ DirsIdle /\ WorkflowIdle /\ BatchIdle

\* lines 42-43: config is None, load_config() is called
LoadDefaultConfig ==
    /\ cf_pc = "call"
    /\ ~cf_arg.given
    /\ cf_config' = load_config(cf_file)
    /\ cf_pc' = "settings"
    /\ UNCHANGED <<cf_file, cf_arg, cf_highlights, cf_handwriting>>
    /\ UNCHANGED <<mvars, dvars, cvars, tvars, evars, wvars, bvars>>

\* line 42: a config was given
KeepConfig ==
    /\ cf_pc = "call"
    /\ cf_arg.given
    /\ cf_config' = cf_arg.config
    /\ cf_pc' = "settings"
    /\ UNCHANGED <<cf_file, cf_arg, cf_highlights, cf_handwriting>>
    /\ UNCHANGED <<mvars, dvars, cvars, tvars, evars, wvars, bvars>>

\* lines 46-47
GetSettings ==
    /\ cf_pc = "settings"
    /\ cf_highlights' = get_flag(cf_config.extract_highlights)
    /\ cf_handwriting' = get_flag(cf_config.extract_handwriting)
    /\ cf_pc' = "extracting"
    /\ UNCHANGED <<cf_file, cf_arg, cf_config>>
    /\ UNCHANGED <<mvars, dvars, cvars, tvars, evars, wvars, bvars>>

ConfigNext == LoadDefaultConfig \/ KeepConfig \/ GetSettings

SpecConfig == ConfigInit /\ [][ConfigNext]_vars

\* the dictionary the settings are read from, seen from the inputs
GivenConfig == IF cf_arg.given THEN cf_arg.config ELSE cf_file.content

\* C22: an absent or invalid config file gives a configuration with both
\* flags true, and a flag missing from the configuration given (the whole
\* extraction section or the single key) is read as true.
C22_MissingConfigDefaults ==
    /\ (cf_pc \in {"settings", "extracting"} /\ ~cf_arg.given
        /\ cf_file.state \in {"absent", "invalid"}) =>
          /\ cf_config.present
          /\ cf_config.extract_highlights = [present |-> TRUE, value |-> TRUE]
          /\ cf_config.extract_handwriting = [present |-> TRUE, value |-> TRUE]
    /\ (cf_pc = "extracting" /\ ~cf_arg.given /\ cf_file.state \in {"absent", "invalid"}) =>
          cf_highlights /\ cf_handwriting
    /\ (cf_pc = "extracting" /\ (cf_arg.given \/ cf_file.state = "valid")) =>
          /\ ~GivenConfig.extract_highlights.present => cf_highlights
          /\ ~GivenConfig.extract_handwriting.present => cf_handwriting

\* config.json is not valid JSON and no config was passed: extraction goes on
\* with both flags on
C22_Witness ==
    /\ cf_pc = "extracting"
    /\ ~cf_arg.given
    /\ cf_file.state = "invalid"
    /\ cf_highlights /\ cf_handwriting

----------------------------------------------------------------------------
(* SpecTune: extract_with_custom_params (src/tune_extraction_params.py)     *)
(* called on a one-page document without native annotations                *)

\* keyword arguments of extract_with_custom_params
ParamPool ==
    [horizontal_threshold : {5, 100, 150},
     vertical_threshold : {25, 50},
     yellow_area_min : {500, 1000},
     red_area_min : {200},
     padding : {0, 15}]

\* the flags the extraction reads from config.json, as no config is passed
TuneFlagPool == [extract_highlights : BOOLEAN, extract_handwriting : BOOLEAN]

TuneInit ==
    /\ tp_params \in ParamPool
    /\ tp_flags \in TuneFlagPool
    /\ tp_img \in PageImagePool
    /\ tp_items = <<>>
    /\ tp_pc = "call"
    /\ CoreIdle
    /\ ConfigIdle /\ DirsIdle /\ WorkflowIdle /\ BatchIdle

\* lines 13-37: the body calls extract_highlights_and_red_annotations(pdf_path,
\* output_dir) and returns its records
ExtractWithCustomParams ==
    /\ tp_pc = "call"
    /\ tp_items' = run_pages(<<PageRead("ok", <<>>, tp_img)>>, 1,
                             tp_flags.extract_highlights,
                             tp_flags.extract_handwriting, <<>>)
    /\ tp_pc' = "returned"
    /\ UNCHANGED <<tp_params, tp_flags, tp_img>>
    /\ UNCHANGED <<mvars, dvars, cvars, fvars, evars, wvars, bvars>>

TuneNext == ExtractWithCustomParams

SpecTune == TuneInit /\ [][TuneNext]_vars

\* the yellow groups the parameters passed in ask for
RequestedYellow ==
    merge_nearby_rectangles(
        rects_of(filter_contours(tp_img.yellow_contours, tp_params.yellow_area_min)),
        tp_params.horizontal_threshold, tp_params.vertical_threshold)

TuneYellowItems ==
    {k \in 1..Len(tp_items) : tp_items[k].type = "yellow_highlight_group"}

\* C23 as stated: the thresholds, minimum areas and padding passed in are the
\* ones used: the yellow records returned are the groups that the given
\* thresholds and minimum area form, cropped with the given padding.
C23_UsesGivenParams ==
    (tp_pc = "returned" /\ tp_flags.extract_highlights) =>
        /\ Cardinality(TuneYellowItems) = Len(RequestedYellow)
        /\ \A k \in TuneYellowItems :
              \E g \in 1..Len(RequestedYellow) :
                  /\ tp_items[k].coordinates.x1
                        = Max2(0, RequestedYellow[g][1] - tp_params.padding)
                  /\ tp_items[k].coordinates.y1
                        = Max2(0, RequestedYellow[g][2] - tp_params.padding)

----------------------------------------------------------------------------
(* SpecDirs: ensure_directories (src/batch_processor.py)                    *)

FolderKeys == {"to_read", "input", "output", "images", "markdown", "html"}

\* the path configured for a key, as the list of its components
ConfiguredPath(key) ==
    CASE key = "to_read" -> <<"test-to-read">>
      [] key = "input" -> <<"test-read">>
      [] key = "output" -> <<"test-output">>
      [] key = "images" -> <<"test-output", "images">>
      [] key = "markdown" -> <<"test-output", "markdown">>
      [] key = "html" -> <<"test-output", "html">>

\* config['folders']: every key may be missing
FoldersPool ==
    {[key \in FolderKeys |-> [present |-> key \in given, path |-> ConfiguredPath(key)]] :
        given \in SUBSET FolderKeys}

\* folders.get(key, default)
folders_get(folders, key, default) ==
    IF folders[key].present THEN folders[key].path ELSE default

\* Path.mkdir(parents=True, exist_ok=True): the directory and its parents
mkdir_parents(fs, path) == fs \cup {SubSeq(path, 1, n) : n \in 1..Len(path)}

DirsInit ==
    /\ ed_folders \in FoldersPool
    /\ ed_dirs = <<>>
    /\ ed_i = 0
    /\ ed_fs \in {{}, {<<"test-output">>}}
    /\ ed_pc = "call"
    /\ CoreIdle
    /\ ConfigIdle /\ TuneIdle /\ WorkflowIdle /\ BatchIdle

\* lines 48-55
EnsureStart ==
    /\ ed_pc = "call"
    /\ ed_dirs' = <<folders_get(ed_folders, "output", <<"output">>),
                    folders_get(ed_folders, "images", <<"output", "images">>),
                    folders_get(ed_folders, "markdown", <<"output", "markdown">>),
                    folders_get(ed_folders, "html", <<"output", "html">>)>>
    /\ ed_i' = 1
    /\ ed_pc' = "loop"
    /\ UNCHANGED <<ed_folders, ed_fs>>
    /\ UNCHANGED <<mvars, dvars, cvars, fvars, tvars, wvars, bvars>>

\* lines 57-59: one iteration of "for dir_path in dirs_to_create"
Mkdir ==
    /\ ed_pc = "loop"
    /\ ed_i <= Len(ed_dirs)
    /\ ed_fs' = mkdir_parents(ed_fs, ed_dirs[ed_i])
    /\ ed_i' = ed_i + 1
    /\ UNCHANGED <<ed_folders, ed_dirs, ed_pc>>
    /\ UNCHANGED <<mvars, dvars, cvars, fvars, tvars, wvars, bvars>>

\* the loop is over: the function returns
EnsureReturn ==
    /\ ed_pc = "loop"
    /\ ed_i > Len(ed_dirs)
    /\ ed_pc' = "returned"
    /\ UNCHANGED <<ed_folders, ed_dirs, ed_i, ed_fs>>
    /\ UNCHANGED <<mvars, dvars, cvars, fvars, tvars, wvars, bvars>>

DirsNext == EnsureStart \/ Mkdir \/ EnsureReturn

SpecDirs == DirsInit /\ [][DirsNext]_vars

\* C24 as stated: after ensure_directories returns, the path of every folder
\* named in the folders section exists.
C24_AllFoldersExist ==
    ed_pc = "returned" =>
        \A key \in FolderKeys :
            ed_folders[key].present => ed_folders[key].path \in ed_fs

----------------------------------------------------------------------------
(* SpecWorkflow: WorkflowOrchestrator.run_full_workflow                      *)
(* (src/workflow_orchestrator.py)                                          *)

\* what a call of a sync component does: raise an exception, or return the
\* number of files it handled
SyncCallPool ==
    {[raises |-> TRUE, value |-> 0]}
    \cup {[raises |-> FALSE, value |-> n] : n \in {0, 1, 2}}

\* what ensure_directories followed by process_all_pdfs does
BatchCallPool == {"ensure_directories raises", "process_all_pdfs raises", "returns"}

\* how a step ends: completed is FALSE when an exception leaves the step
StepEnd(completed, value, outcome) ==
    [completed |-> completed, value |-> value, outcome |-> outcome]

\* faulty variant: the exception of the component leaves the step
sync_step_uncaught(available, call) ==
    IF ~available THEN StepEnd(TRUE, 0, "unavailable")
    ELSE IF call.raises THEN StepEnd(FALSE, 0, "raised")
    ELSE StepEnd(TRUE, call.value, "returned")

\* step1_zotero_sync, step2_remarkable_upload, step3_remarkable_download:
\* "if not self.<component>: return 0", then try / except Exception: return 0
sync_step(available, call) ==
    IF ~available THEN StepEnd(TRUE, 0, "unavailable")
    ELSE IF call.raises THEN StepEnd(TRUE, 0, "raised")
    ELSE StepEnd(TRUE, call.value, "returned")

\* step4_batch_processing, lines 158-173
batch_step(call) ==
    IF call = "returns" THEN StepEnd(TRUE, TRUE, "returned")
    ELSE StepEnd(TRUE, FALSE, "raised")

WorkflowInit ==
    /\ wf_zotero \in BOOLEAN
    /\ wf_remarkable \in BOOLEAN
    /\ wf_results = [zotero_downloads |-> 0, remarkable_uploads |-> 0,
                     remarkable_downloads |-> 0, batch_processing |-> FALSE]
    /\ wf_trace = <<>>
    /\ wf_outcomes = <<>>
    /\ wf_pc = "step1"
    /\ CoreIdle
    /\ ConfigIdle /\ TuneIdle /\ DirsIdle /\ BatchIdle

\* line 192
Step1ZoteroSync ==
    /\ wf_pc = "step1"
    /\ \E call \in SyncCallPool :
          LET r == sync_step(wf_zotero, call)
          IN  /\ wf_outcomes' = Append(wf_outcomes, r.outcome)
              /\ IF r.completed
                 THEN /\ wf_results' = [wf_results EXCEPT !.zotero_downloads = r.value]
                      /\ wf_pc' = "step2"
                 ELSE /\ wf_results' = wf_results
                      /\ wf_pc' = "aborted"
    /\ wf_trace' = Append(wf_trace, "zotero_sync")
    /\ UNCHANGED <<wf_zotero, wf_remarkable>>
    /\ UNCHANGED <<mvars, dvars, cvars, fvars, tvars, evars, bvars>>

\* line 198
Step2RemarkableUpload ==
    /\ wf_pc = "step2"
    /\ \E call \in SyncCallPool :
          LET r == sync_step(wf_remarkable, call)
          IN  /\ wf_outcomes' = Append(wf_outcomes, r.outcome)
              /\ IF r.completed
                 THEN /\ wf_results' = [wf_results EXCEPT !.remarkable_uploads = r.value]
                      /\ wf_pc' = "step3"
                 ELSE /\ wf_results' = wf_results
                      /\ wf_pc' = "aborted"
    /\ wf_trace' = Append(wf_trace, "remarkable_upload")
    /\ UNCHANGED <<wf_zotero, wf_remarkable>>
    /\ UNCHANGED <<mvars, dvars, cvars, fvars, tvars, evars, bvars>>

\* line 201
Step3RemarkableDownload ==
    /\ wf_pc = "step3"
    /\ \E call \in SyncCallPool :
          LET r == sync_step(wf_remarkable, call)
          IN  /\ wf_outcomes' = Append(wf_outcomes, r.outcome)
              /\ IF r.completed
                 THEN /\ wf_results' = [wf_results EXCEPT !.remarkable_downloads = r.value]
                      /\ wf_pc' = "step4"
                 ELSE /\ wf_results' = wf_results
                      /\ wf_pc' = "aborted"
    /\ wf_trace' = Append(wf_trace, "remarkable_download")
    /\ UNCHANGED <<wf_zotero, wf_remarkable>>
    /\ UNCHANGED <<mvars, dvars, cvars, fvars, tvars, evars, bvars>>

\* line 204
Step4BatchProcessing ==
    /\ wf_pc = "step4"
    /\ \E call \in BatchCallPool :
          LET r == batch_step(call)
          IN  /\ wf_outcomes' = Append(wf_outcomes, r.outcome)
              /\ wf_results' = [wf_results EXCEPT !.batch_processing = r.value]
    /\ wf_pc' = "summary"
    /\ wf_trace' = Append(wf_trace, "batch_processing")
    /\ UNCHANGED <<wf_zotero, wf_remarkable>>
    /\ UNCHANGED <<mvars, dvars, cvars, fvars, tvars, evars, bvars>>

\* lines 207-209: print the summary, return results
WorkflowReturn ==
    /\ wf_pc = "summary"
    /\ wf_pc' = "returned"
    /\ UNCHANGED <<wf_zotero, wf_remarkable, wf_results, wf_trace, wf_outcomes>>
    /\ UNCHANGED <<mvars, dvars, cvars, fvars, tvars, evars, bvars>>

WorkflowNext ==
    \/ Step1ZoteroSync
    \/ Step2RemarkableUpload
    \/ Step3RemarkableDownload
    \/ Step4BatchProcessing
    \/ WorkflowReturn

SpecWorkflow == WorkflowInit /\ [][WorkflowNext]_vars

StepOrder == <<"zotero_sync", "remarkable_upload", "remarkable_download", "batch_processing">>

StepResult(i) ==
    CASE i = 1 -> wf_results.zotero_downloads
      [] i = 2 -> wf_results.remarkable_uploads
      [] i = 3 -> wf_results.remarkable_downloads

\* C29: the steps run in the order Zotero sync, reMarkable upload,
\* reMarkable download, batch processing; a step whose component is
\* unavailable or raises is recorded as 0 (False for batch processing); no
\* step keeps the later ones from running, and the dictionary is returned
\* after all four.
C29_WorkflowOrder ==
    /\ IsPrefix(wf_trace, StepOrder)
    /\ wf_pc \in {"idle", "step1", "step2", "step3", "step4", "summary", "returned"}
    /\ Len(wf_outcomes) = Len(wf_trace)
    /\ \A i \in 1..Len(wf_outcomes) :
          wf_outcomes[i] \in {"unavailable", "raised"} =>
              IF i = 4 THEN wf_results.batch_processing = FALSE
              ELSE StepResult(i) = 0
    /\ wf_pc \in {"summary", "returned"} => wf_trace = StepOrder

\* Zotero raised, reMarkable was unavailable, batch processing raised, and
\* the dictionary was returned
C29_Witness ==
    /\ wf_pc = "returned"
    /\ wf_outcomes = <<"raised", "unavailable", "unavailable", "raised">>
    /\ wf_results = [zotero_downloads |-> 0, remarkable_uploads |-> 0,
                     remarkable_downloads |-> 0, batch_processing |-> FALSE]

----------------------------------------------------------------------------
(* SpecBatch: process_all_pdfs (src/batch_processor.py)                     *)

MaxPdfs == 2

\* PDFs are named by their rank in the sorted order of their paths
PdfNames == 1..MaxPdfs

\* how a PDF behaves: whether its extraction raises, how many .png files its
\* images folder holds afterwards, whether OCR on it raises
PdfBehaviourPool == [fails : BOOLEAN, images : {0, 2}, ocr_raises : BOOLEAN]

RECURSIVE sorted(_)
sorted(S) ==
    IF S = {} THEN <<>>
    ELSE LET least == MinOf(S) IN <<least>> \o sorted(S \ {least})

\* lines 32-44: sorted(glob("*.pdf"))
find_pdf_files(dir) == sorted(DOMAIN dir)

\* faulty variant: the output directory is returned although extraction failed
extract_pdf_images_always(pdf, behaviour) == <<"images", pdf>>

\* lines 61-86: the output directory, or "" (the empty sequence) on an exception
extract_pdf_images(pdf, behaviour) ==
    IF behaviour.fails THEN <<>> ELSE <<"images", pdf>>

BatchInit ==
    /\ \E names \in SUBSET PdfNames : bp_dir \in [names -> PdfBehaviourPool]
    /\ bp_files = <<>>
    /\ bp_i = 0
    /\ bp_total_images = 0
    /\ bp_log = <<>>
    /\ bp_pc = "call"
    /\ CoreIdle
    /\ ConfigIdle /\ TuneIdle /\ DirsIdle /\ WorkflowIdle

\* lines 149-154: no PDF found, return
NoPdfFiles ==
    /\ bp_pc = "call"
    /\ find_pdf_files(bp_dir) = <<>>
    /\ bp_pc' = "done"
    /\ UNCHANGED <<bp_dir, bp_files, bp_i, bp_total_images, bp_log>>
    /\ UNCHANGED <<mvars, dvars, cvars, fvars, tvars, evars, wvars>>

\* lines 149-165: the list is found, the counters are reset
FindPdfFiles ==
    /\ bp_pc = "call"
    /\ find_pdf_files(bp_dir) # <<>>
    /\ bp_files' = find_pdf_files(bp_dir)
    /\ bp_i' = 1
    /\ bp_total_images' = 0
    /\ bp_pc' = "loop"
    /\ UNCHANGED <<bp_dir, bp_log>>
    /\ UNCHANGED <<mvars, dvars, cvars, fvars, tvars, evars, wvars>>

\* lines 167-184: one iteration of "for i, pdf_path in enumerate(pdf_files, 1)"
ProcessPdf ==
    /\ bp_pc = "loop"
    /\ bp_i <= Len(bp_files)
    /\ LET pdf == bp_files[bp_i]
           images_dir == extract_pdf_images(pdf, bp_dir[pdf])
       IN  IF images_dir # <<>>
           THEN /\ bp_total_images' = bp_total_images + bp_dir[pdf].images
                /\ bp_log' = Append(bp_log, [pdf |-> pdf, images_dir |-> images_dir,
                                             ocr |-> TRUE, counted |-> bp_dir[pdf].images])
           ELSE /\ bp_total_images' = bp_total_images
                /\ bp_log' = Append(bp_log, [pdf |-> pdf, images_dir |-> images_dir,
                                             ocr |-> FALSE, counted |-> 0])
    /\ bp_i' = bp_i + 1
    /\ UNCHANGED <<bp_dir, bp_files, bp_pc>>
    /\ UNCHANGED <<mvars, dvars, cvars, fvars, tvars, evars, wvars>>

\* lines 186-198: the loop is over, the summary is printed
BatchReturn ==
    /\ bp_pc = "loop"
    /\ bp_i > Len(bp_files)
    /\ bp_pc' = "done"
    /\ UNCHANGED <<bp_dir, bp_files, bp_i, bp_total_images, bp_log>>
    /\ UNCHANGED <<mvars, dvars, cvars, fvars, tvars, evars, wvars>>

BatchNext == NoPdfFiles \/ FindPdfFiles \/ ProcessPdf \/ BatchReturn

SpecBatch == BatchInit /\ [][BatchNext]_vars

RECURSIVE SumImages(_)
SumImages(S) ==
    IF S = {} THEN 0
    ELSE LET pdf == CHOOSE x \in S : TRUE
         IN  bp_dir[pdf].images + SumImages(S \ {pdf})

Handled == {bp_log[i].pdf : i \in 1..Len(bp_log)}

\* C30: a PDF whose extraction fails gives an empty path, no OCR run and no
\* images in the total; the PDFs are handled in sorted order and every one
\* of them is handled, whatever failed before it.
C30_FailureConfined ==
    bp_pc \in {"loop", "done"} =>
        /\ \A i \in 1..Len(bp_log) :
              /\ bp_log[i].pdf = find_pdf_files(bp_dir)[i]
              /\ bp_dir[bp_log[i].pdf].fails =>
                    /\ bp_log[i].images_dir = <<>>
                    /\ ~bp_log[i].ocr
                    /\ bp_log[i].counted = 0
        /\ \A i, j \in 1..Len(bp_log) : i < j => bp_log[i].pdf < bp_log[j].pdf
        /\ bp_total_images = SumImages({pdf \in Handled : ~bp_dir[pdf].fails})
        /\ bp_pc = "done" => Handled = DOMAIN bp_dir

\* the first PDF failed after writing images, the next one was still
\* processed and only its images are in the total
C30_Witness ==
    /\ bp_pc = "done"
    /\ Len(bp_log) >= 2
    /\ bp_dir[bp_log[1].pdf].fails
    /\ bp_dir[bp_log[1].pdf].images > 0
    /\ ~bp_dir[bp_log[2].pdf].fails
    /\ bp_log[2].ocr
    /\ bp_total_images = bp_dir[bp_log[2].pdf].images
    /\ bp_total_images > 0

====
